---- MODULE Spec2Model ----
(***************************************************************************)
(* ZPLC host toolchain: the two-pass assembler and disassembler of         *)
(* tools/zplc_asm.py, modelled as a state machine over source text.        *)
(* Source lines are TLA+ strings; the text operations of the Python code   *)
(* (strip, split, upper, regular-expression matches, int()) are modelled   *)
(* character by character.                                                 *)
(***************************************************************************)
EXTENDS Integers, Sequences, FiniteSets, TLC

VARIABLES
    source,           \* argument of assemble(): the lines of source.splitlines()
    line_num,         \* number of lines pass 1 has consumed (enumerate(..., 1))
    instructions,     \* self.instructions
    labels,           \* self.labels: uppercased name -> Label
    entry_point,      \* self.entry_point: an int, or a label name before pass 2
    current_address,  \* self.current_address
    pc,               \* position inside assemble()
    bytecode,         \* value returned by assemble(), None until it returns
    error,            \* AssemblerError raised by assemble(), None if none
    asm_log,          \* how the earlier calls of assemble() on the instance ended
    dis_input,        \* argument of disassemble()
    dis_pc,           \* local pc of disassemble()
    dis_lines,        \* local list lines of disassemble()
    dis_reads,        \* 0-based indices of the input that disassemble() has read
    dis_state,        \* position inside disassemble()
    isa_opcode,       \* byte value handed to the width lookup
    isa_result,       \* outcome of the width lookup, None before the call
    file_input,       \* argument bytecode of create_zplc_file()
    file_result,      \* outcome of create_zplc_file(), None before the call
    hil_call,         \* the tester method called and its arguments
    hil_pc,           \* position inside that method and the methods it calls
    hil_attempt,      \* loop variable attempt of the retry loop being run
    hil_i,            \* loop variable i of the chunk loop of upload_bytecode()
    hil_wire,         \* every self.send() so far: the command and its answer
    hil_steps,        \* the sleeps and input-buffer resets so far, each with
                      \* the number of commands written before it
    hil_out,          \* what the tester has printed
    hil_resp,         \* the text from the device that the method has parsed
    hil_result,       \* value the method has returned, None if none
    hil_error,        \* exception the method has raised, None if none
    ser_loop,         \* the retry loop of upload_bytecode being run: load or data
    ser_pc,           \* position inside that loop and the send() it calls
    ser_attempt,      \* loop variable attempt of that retry loop
    ser_in,           \* input buffer of the serial port: the bytes received and
                      \* not yet read, each with the numbers of writes and of
                      \* drains that were complete when it arrived
    ser_response,     \* local response of send(), bytes marked as in ser_in
    ser_writes,       \* number of commands written to the port so far
    ser_drains,       \* number of times the input buffer was found empty
    ser_arrived,      \* number of texts the device has sent so far
    ser_hex,          \* hex_data of upload_bytecode
    ser_i,            \* i of the chunk loop of upload_bytecode
    dev_rx,           \* commands written to the port that the device has not handled
    dev_data          \* the hex digits the device has accepted since the last load

asm_vars == <<source, line_num, instructions, labels, entry_point,
              current_address, pc, bytecode, error, asm_log>>
dis_vars == <<dis_input, dis_pc, dis_lines, dis_reads, dis_state>>
isa_vars == <<isa_opcode, isa_result>>
file_vars == <<file_input, file_result>>
hil_vars == <<hil_call, hil_pc, hil_attempt, hil_i, hil_wire, hil_steps, hil_out,
              hil_resp, hil_result, hil_error>>
ser_vars == <<ser_loop, ser_pc, ser_attempt, ser_in, ser_response, ser_writes, ser_drains,
              ser_arrived, ser_hex, ser_i, dev_rx, dev_data>>
tool_vars == <<asm_vars, dis_vars, isa_vars, file_vars, ser_vars>>
vars == <<asm_vars, dis_vars, isa_vars, file_vars, hil_vars, ser_vars>>

(***************************************************************************)
(* Optional values: None is the empty tuple, a present value a 1-tuple.    *)
(***************************************************************************)
None == <<>>
Some(x) == <<x>>

(***************************************************************************)
(* ISA table                                                               *)
(***************************************************************************)
Opcode ==
    "NOP" :> 0 @@ "HALT" :> 1 @@ "BREAK" :> 2 @@ "GET_TICKS" :> 3 @@
    "DUP" :> 16 @@ "DROP" :> 17 @@ "SWAP" :> 18 @@ "OVER" :> 19 @@ "ROT" :> 20 @@
    "ADD" :> 32 @@ "SUB" :> 33 @@ "MUL" :> 34 @@ "DIV" :> 35 @@ "MOD" :> 36 @@
    "NEG" :> 37 @@ "ABS" :> 38 @@
    "ADDF" :> 40 @@ "SUBF" :> 41 @@ "MULF" :> 42 @@ "DIVF" :> 43 @@
    "NEGF" :> 44 @@ "ABSF" :> 45 @@
    "AND" :> 48 @@ "OR" :> 49 @@ "XOR" :> 50 @@ "NOT" :> 51 @@ "SHL" :> 52 @@
    "SHR" :> 53 @@ "SAR" :> 54 @@
    "EQ" :> 56 @@ "NE" :> 57 @@ "LT" :> 58 @@ "LE" :> 59 @@ "GT" :> 60 @@
    "GE" :> 61 @@ "LTU" :> 62 @@ "GTU" :> 63 @@
    "PUSH8" :> 64 @@ "JR" :> 80 @@ "JRZ" :> 81 @@ "JRNZ" :> 82 @@
    "LOAD8" :> 128 @@ "LOAD16" :> 129 @@ "LOAD32" :> 130 @@ "LOAD64" :> 131 @@
    "STORE8" :> 132 @@ "STORE16" :> 133 @@ "STORE32" :> 134 @@ "STORE64" :> 135 @@
    "PUSH16" :> 136 @@
    "JMP" :> 144 @@ "JZ" :> 145 @@ "JNZ" :> 146 @@ "CALL" :> 147 @@ "RET" :> 148 @@
    "I2F" :> 160 @@ "F2I" :> 161 @@ "I2B" :> 162 @@ "EXT8" :> 163 @@
    "EXT16" :> 164 @@ "ZEXT8" :> 165 @@ "ZEXT16" :> 166 @@
    "PUSH32" :> 192

OpcodeValues == {Opcode[n] : n \in DOMAIN Opcode}

\* get_operand_size without its two special cases (range encoding only)
get_operand_size_ranges_only(opcode) ==
    IF opcode < 64 THEN 0
    ELSE IF opcode < 128 THEN 1
    ELSE IF opcode < 192 THEN 2
    ELSE 4

\* get_operand_size(opcode): operand size in bytes
get_operand_size(opcode) ==
    IF opcode = 148 THEN 0                          \* 0x94 RET
    ELSE IF 160 <= opcode /\ opcode <= 166 THEN 0   \* 0xA0..0xA6
    ELSE IF opcode < 64 THEN 0                      \* < 0x40
    ELSE IF opcode < 128 THEN 1                     \* < 0x80
    ELSE IF opcode < 192 THEN 2                     \* < 0xC0
    ELSE 4

OPCODE_BY_NAME == Opcode

\* an OPERAND_SIZE built for every byte value instead of every Opcode member
OPERAND_SIZE_all_bytes == [op \in 0..255 |-> get_operand_size(op)]

OPERAND_SIZE == [op \in OpcodeValues |-> get_operand_size(op)]

\* opcode_names of disassemble(): value -> name
opcode_names == [v \in OpcodeValues |-> CHOOSE n \in DOMAIN Opcode : Opcode[n] = v]

\* the relative-branch opcodes (Opcode.JR, Opcode.JRZ, Opcode.JRNZ)
RelativeJumps == {Opcode["JR"], Opcode["JRZ"], Opcode["JRNZ"]}

(***************************************************************************)
(* Text primitives of the Python string type and the re module             *)
(***************************************************************************)
Char(s, i) == SubSeq(s, i, i)
CharsOf(s) == {Char(s, i) : i \in 1..Len(s)}

LowerCase == "abcdefghijklmnopqrstuvwxyz"
UpperCase == "ABCDEFGHIJKLMNOPQRSTUVWXYZ"
DecDigits == "0123456789"
HexDigits == "0123456789abcdef"
\* printable ASCII in code order: 32..95 and 97..126
AsciiLow == " !\"#$%&'()*+,-./0123456789:;<=>?@ABCDEFGHIJKLMNOPQRSTUVWXYZ[\\]^_"
AsciiHigh == "abcdefghijklmnopqrstuvwxyz{|}~"

\* position of each character of an alphabet, as a lookup table
PositionIn(alphabet) ==
    [c \in CharsOf(alphabet) |-> CHOOSE i \in 1..Len(alphabet) : Char(alphabet, i) = c]

OrdTable ==
    [c \in CharsOf(AsciiLow) \cup CharsOf(AsciiHigh) |->
        IF c \in CharsOf(AsciiLow) THEN 31 + PositionIn(AsciiLow)[c]
        ELSE 96 + PositionIn(AsciiHigh)[c]]

\* ord(c)
Ord(c) == OrdTable[c]

\* str.isspace for the characters a split line can hold
IsSpace(c) == c \in {" ", "\t"}
\* [a-zA-Z_]
IdentStartChars == CharsOf(LowerCase) \cup CharsOf(UpperCase) \cup {"_"}
IsIdentStart(c) == c \in IdentStartChars
\* [a-zA-Z0-9_]
IdentChars == IdentStartChars \cup CharsOf(DecDigits)
IsIdentChar(c) == c \in IdentChars

\* str.upper / str.lower
UpperTable == [c \in CharsOf(LowerCase) |-> Char(UpperCase, PositionIn(LowerCase)[c])]
LowerTable == [c \in CharsOf(UpperCase) |-> Char(LowerCase, PositionIn(UpperCase)[c])]
UpperChar(c) == IF c \in DOMAIN UpperTable THEN UpperTable[c] ELSE c
LowerChar(c) == IF c \in DOMAIN LowerTable THEN LowerTable[c] ELSE c
RECURSIVE Upper(_)
Upper(s) == IF s = "" THEN "" ELSE UpperChar(Head(s)) \o Upper(Tail(s))
RECURSIVE Lower(_)
Lower(s) == IF s = "" THEN "" ELSE LowerChar(Head(s)) \o Lower(Tail(s))

\* str.lstrip / str.rstrip / str.strip
RECURSIVE LStrip(_)
LStrip(s) == IF s # "" /\ IsSpace(Head(s)) THEN LStrip(Tail(s)) ELSE s
RECURSIVE RStrip(_)
RStrip(s) ==
    IF s # "" /\ IsSpace(Char(s, Len(s))) THEN RStrip(SubSeq(s, 1, Len(s) - 1)) ELSE s
Strip(s) == RStrip(LStrip(s))

\* str.startswith
StartsWith(s, p) == Len(s) >= Len(p) /\ SubSeq(s, 1, Len(p)) = p

\* t in s
Contains(s, t) == \E i \in 1..(Len(s) - Len(t) + 1) : SubSeq(s, i, i + Len(t) - 1) = t

\* str.index(c) as a 1-based position, 0 when c does not occur
Find(s, c) ==
    IF \E i \in 1..Len(s) : Char(s, i) = c
    THEN CHOOSE i \in 1..Len(s) : Char(s, i) = c /\ \A j \in 1..(i - 1) : Char(s, j) # c
    ELSE 0

\* length of the longest prefix of s made of identifier characters
RECURSIVE IdentPrefixLen(_)
IdentPrefixLen(s) ==
    IF s # "" /\ IsIdentChar(Head(s)) THEN 1 + IdentPrefixLen(Tail(s)) ELSE 0

\* re.match(r'^[a-zA-Z_][a-zA-Z0-9_]*$', s)
IsIdentifier(s) == s # "" /\ IsIdentStart(Head(s)) /\ IdentPrefixLen(s) = Len(s)

\* re.match(r'^([a-zA-Z_][a-zA-Z0-9_]*)\s*:', s): None, or the pair
\* (group(1), end()) with end() the number of characters matched
LabelMatch(s) ==
    IF s = "" \/ ~IsIdentStart(Head(s)) THEN None
    ELSE LET n == IdentPrefixLen(s)
             rest == SubSeq(s, n + 1, Len(s))
             skipped == Len(rest) - Len(LStrip(rest))
         IN  IF StartsWith(LStrip(rest), ":")
             THEN Some([group |-> SubSeq(s, 1, n), end |-> n + skipped + 1])
             ELSE None

\* s.split(None, 1) of a stripped, non-empty s: <<parts[0]>> or <<parts[0], parts[1]>>
RECURSIVE WordLen(_)
WordLen(s) == IF s # "" /\ ~IsSpace(Head(s)) THEN 1 + WordLen(Tail(s)) ELSE 0
Split1(s) ==
    LET n == WordLen(s)
        rest == LStrip(SubSeq(s, n + 1, Len(s)))
    IN  IF rest = "" THEN <<SubSeq(s, 1, n)>> ELSE <<SubSeq(s, 1, n), rest>>

\* s.split(','): the fields between commas
RECURSIVE SplitComma(_)
SplitComma(s) ==
    LET i == Find(s, ",")
    IN  IF i = 0 THEN <<s>>
        ELSE <<SubSeq(s, 1, i - 1)>> \o SplitComma(SubSeq(s, i + 1, Len(s)))

(***************************************************************************)
(* Number parsing                                                          *)
(***************************************************************************)
ValueError(msg) == [ok |-> FALSE, val |-> 0, msg |-> msg]

\* repr(s) of a str, as int() quotes the rejected literal in its message
RECURSIVE ReprBody(_, _)
ReprBody(s, quote) ==
    IF s = "" THEN ""
    ELSE (CASE Head(s) = "\\" -> "\\\\"
            [] Head(s) = "\t" -> "\\t"
            [] Head(s) = quote -> "\\" \o quote
            [] OTHER -> Head(s)) \o ReprBody(Tail(s), quote)
Repr(s) ==
    IF "'" \in CharsOf(s) /\ "\"" \notin CharsOf(s)
    THEN "\"" \o ReprBody(s, "\"") \o "\""
    ELSE "'" \o ReprBody(s, "'") \o "'"
Value(n) == [ok |-> TRUE, val |-> n, msg |-> ""]

\* value of one digit character, -1 if it is no digit of any base up to 16
DigitTable == [c \in CharsOf(HexDigits) |-> PositionIn(HexDigits)[c] - 1]
DigitOf(c) == IF LowerChar(c) \in DOMAIN DigitTable THEN DigitTable[LowerChar(c)] ELSE -1

\* the digit string of an int() literal: digits of the base, single
\* underscores allowed between digits only
ValidDigits(d, base) ==
    /\ d # ""
    /\ \A i \in 1..Len(d) :
          \/ DigitOf(Char(d, i)) \in 0..(base - 1)
          \/ /\ Char(d, i) = "_"
             /\ i > 1 /\ i < Len(d)
             /\ Char(d, i - 1) # "_"

RECURSIVE DigitsValue(_, _, _)
DigitsValue(d, base, acc) ==
    IF d = "" THEN acc
    ELSE IF Head(d) = "_" THEN DigitsValue(Tail(d), base, acc)
    ELSE DigitsValue(Tail(d), base, acc * base + DigitOf(Head(d)))

BasePrefix(base) == CASE base = 16 -> "0x" [] base = 2 -> "0b" [] base = 8 -> "0o" [] OTHER -> ""

\* int(s, base) of the Python runtime: surrounding blanks, an optional sign,
\* the base prefix for base 2, 8, 16 (one underscore may follow it), digits
PyInt(s, base) ==
    LET Magnitude(d) ==
            IF ValidDigits(d, base) THEN Value(DigitsValue(d, base, 0))
            ELSE ValueError("invalid literal for int() with base " \o ToString(base)
                            \o ": " \o Repr(s))
        SkipUnderscore(v) == IF StartsWith(v, "_") THEN Tail(v) ELSE v
        SkipPrefix(u) ==
            IF base # 10 /\ StartsWith(Lower(u), BasePrefix(base))
            THEN SkipUnderscore(SubSeq(u, 3, Len(u))) ELSE u
        WithSign(negative, m) == IF negative /\ m.ok THEN Value(0 - m.val) ELSE m
        Signed(t) ==
            WithSign(t # "" /\ Head(t) = "-",
                     Magnitude(SkipPrefix(IF t # "" /\ Head(t) \in {"-", "+"}
                                          THEN Tail(t) ELSE t)))
    IN  Signed(Strip(s))

\* escapes = {'n': 10, 'r': 13, 't': 9, '\\': 92, "'": 39, '0': 0}
escapes == "n" :> 10 @@ "r" :> 13 @@ "t" :> 9 @@ "\\" :> 92 @@ "'" :> 39 @@ "0" :> 0

\* ZPLCAssembler.parse_number
parse_number(str) ==
    LET s == Strip(str)
        \* the base of the int(s, base) call that the prefix selects
        Base(s1) == IF StartsWith(Lower(s1), "0x") THEN 16
                    ELSE IF StartsWith(Lower(s1), "0b") THEN 2
                    ELSE IF StartsWith(Lower(s1), "0o") THEN 8
                    ELSE 10
        Unsigned(s1) == PyInt(s1, Base(s1))
        Signed(negative, parsed) ==
            IF ~parsed.ok THEN parsed
            ELSE Value(IF negative THEN 0 - parsed.val ELSE parsed.val)
    IN  IF s = "" THEN ValueError("Empty number")
        ELSE IF StartsWith(s, "'") /\ Char(s, Len(s)) = "'" /\ Len(s) >= 3
        THEN IF Char(s, 2) = "\\" /\ Len(s) >= 4 /\ Char(s, 3) \in DOMAIN escapes
             THEN Value(escapes[Char(s, 3)])
             ELSE Value(Ord(Char(s, 2)))
        ELSE Signed(Head(s) = "-", Unsigned(IF Head(s) \in {"-", "+"} THEN Tail(s) ELSE s))

(***************************************************************************)
(* Assembler data structures                                               *)
(***************************************************************************)
\* dataclass Instruction
Instruction(opcode, operand, operand_label, ln, address) ==
    [opcode |-> opcode, operand |-> operand, operand_label |-> operand_label,
     line_num |-> ln, address |-> address]

\* dataclass Label
Label(name, address, ln) == [name |-> name, address |-> address, line_num |-> ln]

\* class AssemblerError(message, line_num, line)
AssemblerError(message, ln, line) == [message |-> message, line_num |-> ln, line |-> line]

\* self.entry_point holds an int, or (between .ENTRY and pass 2) a str
EntryInt(n) == [is_str |-> FALSE, int |-> n, str |-> ""]
EntryStr(s) == [is_str |-> TRUE, int |-> 0, str |-> s]

\* the assembler fields one line of pass 1 can change, and what it raised
LineResult(raised, lbls, instr, addr, entry) ==
    [raised |-> raised, labels |-> lbls, instr |-> instr,
     current_address |-> addr, entry_point |-> entry]

\* ZPLCAssembler.parse_operand: (value, label_ref) or the error raised
parse_operand(operand_str, ln) ==
    LET s == Strip(operand_str)
        Number(n) ==
            IF n.ok THEN [raised |-> None, value |-> Some(n.val), label |-> None]
            ELSE [raised |-> Some(AssemblerError("Invalid operand '" \o s \o "': " \o n.msg,
                                                 ln, "")),
                  value |-> None, label |-> None]
    IN  IF s = "" THEN [raised |-> None, value |-> None, label |-> None]
        ELSE IF IsIdentifier(s) THEN [raised |-> None, value |-> None, label |-> Some(s)]
        ELSE Number(parse_number(s))

\* define_bytes leaving the address cursor where it was
define_bytes_cursor_kept(vals, addr) == [ok |-> TRUE, msg |-> "", addr |-> addr]

\* the .DB/.BYTE loop: one address per value; a value that does not parse
\* raises ValueError after the earlier values have advanced the cursor
RECURSIVE define_bytes(_, _)
define_bytes(vals, addr) ==
    LET Byte(n) == IF n.ok THEN define_bytes(Tail(vals), addr + 1)
                   ELSE [ok |-> FALSE, msg |-> n.msg, addr |-> addr]
    IN  IF vals = <<>> THEN [ok |-> TRUE, msg |-> "", addr |-> addr]
        ELSE Byte(parse_number(Strip(Head(vals))))

\* ZPLCAssembler.handle_directive; the ValueError that .DB/.BYTE lets escape
\* is wrapped by the handler of assemble() with the raw source line
handle_directive(directive, operand, ln, lbls, addr, entry, raw) ==
    LET Org(n) ==
            IF n.ok THEN LineResult(None, lbls, None, n.val, entry)
            ELSE LineResult(Some(AssemblerError("Invalid address for .ORG: " \o operand, ln, "")),
                            lbls, None, addr, entry)
        Entry(s, n) ==
            IF IsIdentifier(s) THEN LineResult(None, lbls, None, addr, EntryStr(Upper(s)))
            ELSE IF n.ok THEN LineResult(None, lbls, None, addr, EntryInt(n.val))
            ELSE LineResult(Some(AssemblerError("Invalid entry point: " \o s, ln, "")),
                            lbls, None, addr, entry)
        Bytes(r) ==
            IF r.ok THEN LineResult(None, lbls, None, r.addr, entry)
            \* except Exception as e: raise AssemblerError(str(e), line_num, line)
            ELSE LineResult(Some(AssemblerError(r.msg, ln, raw)), lbls, None, r.addr, entry)
    IN  IF directive = ".ORG" THEN Org(parse_number(operand))
        ELSE IF directive = ".ENTRY" THEN Entry(Strip(operand), parse_number(Strip(operand)))
        ELSE IF directive = ".DB" \/ directive = ".BYTE"
        THEN Bytes(define_bytes(SplitComma(operand), addr))
        ELSE LineResult(Some(AssemblerError("Unknown directive '" \o directive \o "'", ln, "")),
                        lbls, None, addr, entry)

\* an instruction counted as its opcode byte alone
asm_instr_size_opcode_only(operand_size) == 1

\* instr_size of parse_line: the bytes an instruction takes
asm_instr_size(operand_size) == 1 + operand_size

\* ZPLCAssembler.parse_line, after the label (if any) has been entered:
\* line is the stripped remainder
parse_statement(line, ln, lbls, addr, entry, raw) ==
    LET Encode(mnemonic, opcode, operand_size, operand_str, opnd) ==
            IF operand_size > 0 /\ operand_str = ""
            THEN LineResult(Some(AssemblerError("Instruction '" \o mnemonic
                                 \o "' requires an operand", ln, line)),
                            lbls, None, addr, entry)
            ELSE IF operand_size > 0 /\ opnd.raised # None
            THEN LineResult(opnd.raised, lbls, None, addr, entry)
            ELSE IF operand_size = 0 /\ operand_str # ""
            THEN LineResult(Some(AssemblerError("Instruction '" \o mnemonic
                                 \o "' takes no operand", ln, line)),
                            lbls, None, addr, entry)
            ELSE LineResult(None, lbls,
                     Some(Instruction(opcode,
                                      IF operand_size > 0 THEN opnd.value ELSE None,
                                      IF operand_size > 0 THEN opnd.label ELSE None,
                                      ln, addr)),
                     addr + asm_instr_size(operand_size), entry)
        Statement(mnemonic, operand_str) ==
            IF StartsWith(mnemonic, ".")
            THEN handle_directive(mnemonic, operand_str, ln, lbls, addr, entry, raw)
            ELSE IF mnemonic \notin DOMAIN OPCODE_BY_NAME
            THEN LineResult(Some(AssemblerError("Unknown instruction '" \o mnemonic \o "'",
                                                ln, line)),
                            lbls, None, addr, entry)
            ELSE Encode(mnemonic, OPCODE_BY_NAME[mnemonic], OPERAND_SIZE[OPCODE_BY_NAME[mnemonic]],
                        operand_str, parse_operand(operand_str, ln))
        Parts(parts) == Statement(Upper(parts[1]), IF Len(parts) > 1 THEN parts[2] ELSE "")
    IN  Parts(Split1(line))

\* line[:line.index(';')] when the line holds a ';'
StripComment(line) ==
    IF Find(line, ";") > 0 THEN SubSeq(line, 1, Find(line, ";") - 1) ELSE line

\* parse_line entering the label as written, without .upper()
parse_line_case_sensitive(raw, ln, lbls, addr, entry) ==
    LET line == Strip(StripComment(raw))
        Statement(rest, lbls1) ==
            IF rest = "" THEN LineResult(None, lbls1, None, addr, entry)
            ELSE parse_statement(rest, ln, lbls1, addr, entry, raw)
        Labelled(label_name, rest) ==
            IF label_name \in DOMAIN lbls
            THEN LineResult(Some(AssemblerError("Duplicate label '" \o label_name \o "'",
                                                ln, line)),
                            lbls, None, addr, entry)
            ELSE Statement(rest, (label_name :> Label(label_name, addr, ln)) @@ lbls)
        Match(label_match) ==
            IF label_match = None THEN Statement(line, lbls)
            ELSE Labelled(label_match[1].group,
                          Strip(SubSeq(line, label_match[1].end + 1, Len(line))))
    IN  Match(LabelMatch(line))

\* ZPLCAssembler.parse_line(line, line_num) on the assembler fields
parse_line(raw, ln, lbls, addr, entry) ==
    LET line == Strip(StripComment(raw))
        Statement(rest, lbls1) ==
            IF rest = "" THEN LineResult(None, lbls1, None, addr, entry)
            ELSE parse_statement(rest, ln, lbls1, addr, entry, raw)
        Labelled(label_name, rest) ==
            IF label_name \in DOMAIN lbls
            THEN LineResult(Some(AssemblerError("Duplicate label '" \o label_name \o "'",
                                                ln, line)),
                            lbls, None, addr, entry)
            ELSE Statement(rest, (label_name :> Label(label_name, addr, ln)) @@ lbls)
        Match(label_match) ==
            IF label_match = None THEN Statement(line, lbls)
            ELSE Labelled(Upper(label_match[1].group),
                          Strip(SubSeq(line, label_match[1].end + 1, Len(line))))
    IN  Match(LabelMatch(line))

(***************************************************************************)
(* Pass 2 and emission                                                     *)
(***************************************************************************)
\* resolve_instr with the relative offset taken from the opcode address
\* instead of the address after the instruction
resolve_instr_offset_from_opcode(instr, lbls) ==
    IF instr.operand_label = None THEN [raised |-> None, instr |-> instr]
    ELSE LET label_name == Upper(instr.operand_label[1])
             label == lbls[label_name]
             offset == label.address - instr.address
         IN  IF label_name \notin DOMAIN lbls
             THEN [raised |-> Some(AssemblerError("Undefined label '" \o label_name \o "'",
                                                  instr.line_num, "")),
                   instr |-> instr]
             ELSE IF instr.opcode \in RelativeJumps
             THEN IF offset < -128 \/ offset > 127
                  THEN [raised |-> Some(AssemblerError("Relative jump to '" \o label_name
                                        \o "' out of range (" \o ToString(offset) \o ")",
                                        instr.line_num, "")),
                        instr |-> instr]
                  ELSE [raised |-> None,
                        instr |-> [instr EXCEPT !.operand = Some(offset % 256)]]
             ELSE [raised |-> None,
                   instr |-> [instr EXCEPT !.operand = Some(label.address)]]

\* resolve_instr as a one-pass assembler would do it: a label defined on a
\* later line than the reference is not known yet and resolves to 0
resolve_instr_single_pass(instr, lbls) ==
    IF instr.operand_label = None THEN [raised |-> None, instr |-> instr]
    ELSE LET label_name == Upper(instr.operand_label[1])
             found == lbls[label_name]
             label == IF found.line_num <= instr.line_num THEN found
                      ELSE [found EXCEPT !.address = 0]
             offset == label.address - (instr.address + 2)
         IN  IF label_name \notin DOMAIN lbls
             THEN [raised |-> Some(AssemblerError("Undefined label '" \o label_name \o "'",
                                                  instr.line_num, "")),
                   instr |-> instr]
             ELSE IF instr.opcode \in RelativeJumps
             THEN IF offset < -128 \/ offset > 127
                  THEN [raised |-> Some(AssemblerError("Relative jump to '" \o label_name
                                        \o "' out of range (" \o ToString(offset) \o ")",
                                        instr.line_num, "")),
                        instr |-> instr]
                  ELSE [raised |-> None,
                        instr |-> [instr EXCEPT !.operand = Some(offset % 256)]]
             ELSE [raised |-> None,
                   instr |-> [instr EXCEPT !.operand = Some(label.address)]]

\* body of the loop of resolve_labels for one instruction: the instruction
\* with its operand resolved, or the error raised
resolve_instr(instr, lbls) ==
    IF instr.operand_label = None THEN [raised |-> None, instr |-> instr]
    ELSE LET label_name == Upper(instr.operand_label[1])
             label == lbls[label_name]
             offset == label.address - (instr.address + 2)
         IN  IF label_name \notin DOMAIN lbls
             THEN [raised |-> Some(AssemblerError("Undefined label '" \o label_name \o "'",
                                                  instr.line_num, "")),
                   instr |-> instr]
             ELSE IF instr.opcode \in RelativeJumps
             THEN IF offset < -128 \/ offset > 127
                  THEN [raised |-> Some(AssemblerError("Relative jump to '" \o label_name
                                        \o "' out of range (" \o ToString(offset) \o ")",
                                        instr.line_num, "")),
                        instr |-> instr]
                  ELSE [raised |-> None,
                        instr |-> [instr EXCEPT !.operand = Some(offset % 256)]]
             ELSE [raised |-> None,
                   instr |-> [instr EXCEPT !.operand = Some(label.address)]]

\* the for loop of resolve_labels from instruction i on
RECURSIVE resolve_from(_, _, _)
resolve_from(instrs, i, lbls) ==
    LET Resolved(r) ==
            IF r.raised # None THEN [raised |-> r.raised, instructions |-> instrs]
            ELSE resolve_from([instrs EXCEPT ![i] = r.instr], i + 1, lbls)
    IN  IF i > Len(instrs) THEN [raised |-> None, instructions |-> instrs]
        ELSE Resolved(resolve_instr(instrs[i], lbls))

\* resolve_labels falling back to entry point 0 when the entry label is
\* missing, instead of raising
resolve_labels_entry_default(instrs, lbls, entry) ==
    LET Entry(r) ==
            IF r.raised # None
            THEN [raised |-> r.raised, instructions |-> r.instructions, entry_point |-> entry]
            ELSE IF ~entry.is_str
            THEN [raised |-> None, instructions |-> r.instructions, entry_point |-> entry]
            ELSE IF entry.str \notin DOMAIN lbls
            THEN [raised |-> None, instructions |-> r.instructions,
                  entry_point |-> EntryInt(0)]
            ELSE [raised |-> None, instructions |-> r.instructions,
                  entry_point |-> EntryInt(lbls[entry.str].address)]
    IN  Entry(resolve_from(instrs, 1, lbls))

\* ZPLCAssembler.resolve_labels
resolve_labels(instrs, lbls, entry) ==
    LET Entry(r) ==
            IF r.raised # None
            THEN [raised |-> r.raised, instructions |-> r.instructions, entry_point |-> entry]
            ELSE IF ~entry.is_str
            THEN [raised |-> None, instructions |-> r.instructions, entry_point |-> entry]
            ELSE IF entry.str \notin DOMAIN lbls
            THEN [raised |-> Some(AssemblerError("Undefined entry point label '"
                                                 \o entry.str \o "'", 0, "")),
                  instructions |-> r.instructions, entry_point |-> entry]
            ELSE [raised |-> None, instructions |-> r.instructions,
                  entry_point |-> EntryInt(lbls[entry.str].address)]
    IN  Entry(resolve_from(instrs, 1, lbls))

\* struct.pack little-endian of value & (2^(8*size) - 1) in size bytes
RECURSIVE pack_le(_, _)
pack_le(value, size) ==
    IF size = 0 THEN <<>>
    ELSE <<value % 256>> \o pack_le(value \div 256, size - 1)

\* emit_instr with the operand written at twice its declared width
emit_instr_double_width(instr) ==
    LET operand_size == OPERAND_SIZE[instr.opcode]
        operand == IF instr.operand # None THEN instr.operand[1] ELSE 0
    IN  <<instr.opcode>> \o pack_le(operand, 2 * operand_size)

\* emit_instr with a 1-byte operand clamped to 0..255 instead of masked
emit_instr_clamped(instr) ==
    LET operand_size == OPERAND_SIZE[instr.opcode]
        operand == IF instr.operand # None THEN instr.operand[1] ELSE 0
        clamped == IF operand_size # 1 THEN operand
                   ELSE IF operand > 255 THEN 255 ELSE IF operand < 0 THEN 0 ELSE operand
    IN  <<instr.opcode>> \o pack_le(clamped, operand_size)

\* bytes one instruction adds to the output in emit_bytecode
emit_instr(instr) ==
    LET operand_size == OPERAND_SIZE[instr.opcode]
        operand == IF instr.operand # None THEN instr.operand[1] ELSE 0
    IN  <<instr.opcode>> \o pack_le(operand, operand_size)

\* ZPLCAssembler.emit_bytecode
RECURSIVE emit_bytecode(_)
emit_bytecode(instrs) ==
    IF instrs = <<>> THEN <<>>
    ELSE emit_instr(Head(instrs)) \o emit_bytecode(Tail(instrs))

(***************************************************************************)
(* assemble() as a state machine                                           *)
(***************************************************************************)
\* ZPLCAssembler.__init__ ; no call of assemble or disassemble is active
AsmInit ==
    /\ source = <<>>
    /\ line_num = 0
    /\ instructions = <<>>
    /\ labels = <<>>
    /\ entry_point = EntryInt(0)
    /\ current_address = 0
    /\ pc = "idle"
    /\ bytecode = None
    /\ error = None
    /\ asm_log = <<>>

\* assemble that leaves the label table of the call before in place
AssembleBegin_labels_kept(src) ==
    /\ pc \in {"idle", "returned", "raised"}
    /\ dis_state \in {"idle", "done"}
    /\ source' = src
    /\ line_num' = 0
    /\ instructions' = <<>>
    /\ labels' = labels
    /\ current_address' = 0
    /\ entry_point' = EntryInt(0)
    /\ pc' = "pass1"
    /\ bytecode' = None
    /\ error' = None
    /\ asm_log' = IF pc = "idle" THEN asm_log ELSE Append(asm_log, pc)
    /\ dis_input' = <<>> /\ dis_pc' = 0 /\ dis_lines' = <<>> /\ dis_reads' = {}
    /\ dis_state' = "idle"
    /\ UNCHANGED <<isa_vars, file_vars, hil_vars, ser_vars>>

\* assemble(source): the four resets that open the method
AssembleBegin(src) ==
    /\ pc \in {"idle", "returned", "raised"}
    /\ dis_state \in {"idle", "done"}
    /\ source' = src
    /\ line_num' = 0
    /\ instructions' = <<>>
    /\ labels' = <<>>
    /\ current_address' = 0
    /\ entry_point' = EntryInt(0)
    /\ pc' = "pass1"
    /\ bytecode' = None
    /\ error' = None
    /\ asm_log' = IF pc = "idle" THEN asm_log ELSE Append(asm_log, pc)
    /\ dis_input' = <<>> /\ dis_pc' = 0 /\ dis_lines' = <<>> /\ dis_reads' = {}
    /\ dis_state' = "idle"
    /\ UNCHANGED <<isa_vars, file_vars, hil_vars, ser_vars>>

\* pass 1: one iteration of the loop over source.splitlines()
ParseLine ==
    /\ pc = "pass1"
    /\ line_num < Len(source)
    /\ \E r \in {parse_line(source[line_num + 1], line_num + 1,
                            labels, current_address, entry_point)} :
           /\ line_num' = line_num + 1
           /\ labels' = r.labels
           /\ instructions' = IF r.instr # None THEN Append(instructions, r.instr[1])
                              ELSE instructions
           /\ current_address' = r.current_address
           /\ entry_point' = r.entry_point
           /\ error' = r.raised
           /\ pc' = IF r.raised # None THEN "raised" ELSE "pass1"
    /\ UNCHANGED <<source, bytecode, asm_log, dis_vars, isa_vars, file_vars, hil_vars, ser_vars>>

\* ResolveLabels entered while pass 1 still has lines to read
ResolveLabels_before_end_of_pass1 ==
    /\ pc = "pass1"
    /\ \E r \in {resolve_labels(instructions, labels, entry_point)} :
           /\ instructions' = r.instructions
           /\ entry_point' = r.entry_point
           /\ error' = r.raised
           /\ pc' = IF r.raised # None THEN "raised" ELSE "emit"
    /\ UNCHANGED <<source, line_num, labels, current_address, bytecode, asm_log, dis_vars, isa_vars, file_vars, hil_vars, ser_vars>>

\* pass 2: self.resolve_labels(), once pass 1 has consumed every line
ResolveLabels ==
    /\ pc = "pass1"
    /\ line_num = Len(source)
    /\ \E r \in {resolve_labels(instructions, labels, entry_point)} :
           /\ instructions' = r.instructions
           /\ entry_point' = r.entry_point
           /\ error' = r.raised
           /\ pc' = IF r.raised # None THEN "raised" ELSE "emit"
    /\ UNCHANGED <<source, line_num, labels, current_address, bytecode, asm_log, dis_vars, isa_vars, file_vars, hil_vars, ser_vars>>

\* bytecode = self.emit_bytecode(); return bytecode
EmitBytecode ==
    /\ pc = "emit"
    /\ bytecode' = Some(emit_bytecode(instructions))
    /\ pc' = "returned"
    /\ UNCHANGED <<source, line_num, instructions, labels, entry_point,
                   current_address, error, asm_log, dis_vars, isa_vars, file_vars,
                   hil_vars, ser_vars>>

(***************************************************************************)
(* Disassembler                                                            *)
(***************************************************************************)
\* default of the parameter base_addr of disassemble()
base_addr == 0

HexUpper == "0123456789ABCDEF"

RECURSIVE HexDigitsOf(_)
HexDigitsOf(n) ==
    IF n < 16 THEN Char(HexUpper, n + 1)
    ELSE HexDigitsOf(n \div 16) \o Char(HexUpper, (n % 16) + 1)

RECURSIVE ZeroPad(_, _)
ZeroPad(s, width) == IF Len(s) >= width THEN s ELSE ZeroPad("0" \o s, width)

\* format(n, '0<width>X'): the sign counts toward the width
Hex(n, width) ==
    IF n < 0 THEN "-" \o ZeroPad(HexDigitsOf(0 - n), width - 1)
    ELSE ZeroPad(HexDigitsOf(n), width)

\* format(struct.unpack_from('<H' or '<I', bytes, at)[0], '0<2*size>X'): the
\* size bytes at 0-based index at, most significant first, two digits each
\* (the 32-bit value itself can exceed the integers TLC computes with)
RECURSIVE HexLE(_, _, _)
HexLE(bytes, at, size) ==
    IF size = 0 THEN ""
    ELSE HexLE(bytes, at + 1, size - 1) \o Hex(bytes[at + 1], 2)

\* the test that takes the <truncated> branch, with > in the place of >=
truncated_one_byte_late(bytes, p, operand_size) == p + operand_size > Len(bytes)

\* if pc + operand_size >= len(bytecode)
truncated(bytes, p, operand_size) == p + operand_size >= Len(bytes)

\* one iteration of the while loop of disassemble at 0-based index p: the
\* line appended, the next pc, whether the loop was left by break, the
\* indices of bytes read, and whether a read beyond the end raised
\* (IndexError of bytecode[i], struct.error of unpack_from)
disassemble_at(bytes, p) ==
    LET addr == base_addr + p
        opcode == bytes[p + 1]
        name == opcode_names[opcode]
        operand_size == get_operand_size(opcode)
        instr_size == 1 + operand_size
        operand == bytes[p + 2]
        signed_op == IF operand < 128 THEN operand ELSE operand - 256
        target == addr + 2 + signed_op
        at == "0x" \o Hex(addr, 4) \o ": "
        Step(line, next, break, reads) ==
            [line |-> line, pc |-> next, break |-> break, reads |-> reads, raised |-> FALSE]
    IN  IF opcode \notin DOMAIN opcode_names
        THEN Step(at \o "??? (0x" \o Hex(opcode, 2) \o ")", p + 1, FALSE, {p})
        ELSE IF truncated(bytes, p, operand_size)
        THEN Step(at \o name \o " <truncated>", p, TRUE, {p})
        ELSE IF operand_size = 0
        THEN Step(at \o name, p + instr_size, FALSE, {p})
        ELSE IF p + operand_size > Len(bytes) - 1
        THEN [line |-> "", pc |-> p, break |-> FALSE,
              reads |-> p..(p + operand_size), raised |-> TRUE]
        ELSE IF operand_size = 1
        THEN IF opcode \in RelativeJumps
             THEN Step(at \o name \o " " \o ToString(signed_op)
                          \o " (-> 0x" \o Hex(target, 4) \o ")",
                       p + instr_size, FALSE, {p, p + 1})
             ELSE Step(at \o name \o " " \o ToString(operand)
                          \o " (0x" \o Hex(operand, 2) \o ")",
                       p + instr_size, FALSE, {p, p + 1})
        ELSE IF operand_size = 2
        THEN Step(at \o name \o " 0x" \o HexLE(bytes, p + 1, 2),
                  p + instr_size, FALSE, p..(p + 2))
        ELSE Step(at \o name \o " 0x" \o HexLE(bytes, p + 1, 4),
                  p + instr_size, FALSE, p..(p + 4))

\* no call of disassemble is active
DisInit ==
    /\ dis_input = <<>>
    /\ dis_pc = 0
    /\ dis_lines = <<>>
    /\ dis_reads = {}
    /\ dis_state = "idle"

\* disassemble(bytecode) up to the first test of the while condition
DisassembleStart(bytes) ==
    /\ dis_input' = bytes
    /\ dis_pc' = 0
    /\ dis_lines' = <<>>
    /\ dis_reads' = {}
    /\ dis_state' = IF 0 < Len(bytes) THEN "loop" ELSE "done"

\* disassemble(asm.emit_bytecode()) of main(), after a successful assemble
DisassembleBegin ==
    /\ pc = "returned"
    /\ dis_state = "idle"
    /\ DisassembleStart(emit_bytecode(instructions))
    /\ UNCHANGED <<asm_vars, isa_vars, file_vars, hil_vars, ser_vars>>

\* one iteration of the while loop and the test that follows it
DisassembleStep ==
    /\ dis_state = "loop"
    /\ \E r \in {disassemble_at(dis_input, dis_pc)} :
           /\ dis_lines' = IF r.raised THEN dis_lines ELSE Append(dis_lines, r.line)
           /\ dis_pc' = r.pc
           /\ dis_reads' = dis_reads \cup r.reads
           /\ dis_state' = IF r.raised THEN "raised"
                           ELSE IF r.break \/ r.pc >= Len(dis_input) THEN "done"
                           ELSE "loop"
    /\ UNCHANGED <<dis_input, asm_vars, isa_vars, file_vars, hil_vars, ser_vars>>

(***************************************************************************)
(* Module file                                                             *)
(***************************************************************************)
\* ZPLC_MAGIC = 0x434C505A
ZPLC_MAGIC == 1129074778
ZPLC_VERSION_MAJOR == 1
ZPLC_VERSION_MINOR == 0

\* create_zplc_file with the crc32 field set to the number of code bytes
create_zplc_file_crc_filled(bytes, entry) ==
    [raised |-> None,
     file |-> pack_le(ZPLC_MAGIC, 4) \o pack_le(ZPLC_VERSION_MAJOR, 2)
              \o pack_le(ZPLC_VERSION_MINOR, 2) \o pack_le(0, 4)
              \o pack_le(Len(bytes), 4) \o pack_le(Len(bytes), 4) \o pack_le(0, 4)
              \o pack_le(IF entry.is_str THEN 0 ELSE entry.int, 2)
              \o pack_le(1, 2) \o pack_le(0, 4)
              \o pack_le(1, 2) \o pack_le(0, 2) \o pack_le(Len(bytes), 4) \o bytes]

\* ZPLCAssembler.create_zplc_file on an instance whose entry_point is entry:
\* the bytes returned, or the struct.error that struct.pack raises for an
\* 'H' field outside 0..65535 (pack never truncates)
create_zplc_file(bytes, entry) ==
    LET code_size == Len(bytes)
        segment_count == 1
        ep == IF entry.is_str THEN 0 ELSE entry.int
        header == pack_le(ZPLC_MAGIC, 4) \o pack_le(ZPLC_VERSION_MAJOR, 2)
                  \o pack_le(ZPLC_VERSION_MINOR, 2) \o pack_le(0, 4) \o pack_le(0, 4)
                  \o pack_le(code_size, 4) \o pack_le(0, 4) \o pack_le(ep, 2)
                  \o pack_le(segment_count, 2) \o pack_le(0, 4)
        segment_entry == pack_le(1, 2) \o pack_le(0, 2) \o pack_le(code_size, 4)
    IN  IF ep < 0 \/ ep > 65535
        THEN [raised |-> Some("ushort format requires 0 <= number <= 65535"), file |-> <<>>]
        ELSE [raised |-> None, file |-> header \o segment_entry \o bytes]

\* create_zplc_file has not been called
FileInit ==
    /\ file_input = <<>>
    /\ file_result = None

\* asm.create_zplc_file(bytes) on a new instance, or on one whose assemble()
\* has returned (as assemble_file calls it)
CreateZplcFile(bytes) ==
    /\ pc \in {"idle", "returned"}
    /\ file_result = None
    /\ file_input' = bytes
    /\ file_result' = Some(create_zplc_file(bytes, entry_point))
    /\ UNCHANGED <<asm_vars, dis_vars, isa_vars, hil_vars, ser_vars>>

(***************************************************************************)
(* The table lookups on one byte value                                     *)
(***************************************************************************)
IsaInit ==
    /\ isa_opcode = 0
    /\ isa_result = None

\* get_operand_size(b), OPERAND_SIZE.get(b) and opcode_names.get(b)
IsaLookup ==
    /\ isa_result = None
    /\ isa_result' = Some([size |-> get_operand_size(isa_opcode),
                           table |-> IF isa_opcode \in DOMAIN OPERAND_SIZE
                                     THEN Some(OPERAND_SIZE[isa_opcode]) ELSE None,
                           name |-> IF isa_opcode \in DOMAIN opcode_names
                                    THEN Some(opcode_names[isa_opcode]) ELSE None])
    /\ UNCHANGED <<isa_opcode, asm_vars, dis_vars, file_vars, hil_vars, ser_vars>>

\* assemble(source) as one function of the source lines: pass 1 from line i
\* on, given the assembler fields st that the earlier lines left
RECURSIVE parse_lines(_, _, _)
parse_lines(src, i, st) ==
    LET Parsed(r) ==
            parse_lines(src, i + 1,
                [raised |-> r.raised, labels |-> r.labels,
                 instructions |-> IF r.instr # None
                                  THEN Append(st.instructions, r.instr[1])
                                  ELSE st.instructions,
                 current_address |-> r.current_address,
                 entry_point |-> r.entry_point])
    IN  IF i > Len(src) \/ st.raised # None THEN st
        ELSE Parsed(parse_line(src[i], i, st.labels, st.current_address, st.entry_point))

\* ZPLCAssembler.assemble on a fresh instance: the error raised or the bytes
\* returned, with the fields the instance is left with
assemble(src) ==
    LET Pass2(p1, p2) ==
            IF p2.raised # None
            THEN [raised |-> p2.raised, bytes |-> <<>>, labels |-> p1.labels,
                  instructions |-> p2.instructions, entry_point |-> p2.entry_point]
            ELSE [raised |-> None, bytes |-> emit_bytecode(p2.instructions),
                  labels |-> p1.labels,
                  instructions |-> p2.instructions, entry_point |-> p2.entry_point]
        Pass1(p1) ==
            IF p1.raised # None
            THEN [raised |-> p1.raised, bytes |-> <<>>, labels |-> p1.labels,
                  instructions |-> p1.instructions, entry_point |-> p1.entry_point]
            ELSE Pass2(p1, resolve_labels(p1.instructions, p1.labels, p1.entry_point))
    IN  Pass1(parse_lines(src, 1, [raised |-> None, labels |-> <<>>, instructions |-> <<>>,
                                   current_address |-> 0, entry_point |-> EntryInt(0)]))

(***************************************************************************)
(* The hardware-in-the-loop client: ZPLCTester of tools/hil/zplc_tester.py *)
(* and LanguageTester of tools/hil/language_tester.py.  One step is one    *)
(* self.send() with the statements that follow it up to the next one.     *)
(***************************************************************************)
\* ZPLCTester.OP: the opcode table of the transport client
OP ==
    ("NOP" :> 0) @@ ("HALT" :> 1) @@ ("BREAK" :> 2) @@ ("GET_TICKS" :> 3) @@
    ("DUP" :> 16) @@ ("DROP" :> 17) @@ ("SWAP" :> 18) @@ ("OVER" :> 19) @@
    ("ROT" :> 20) @@ ("LOADI8" :> 21) @@ ("LOADI32" :> 22) @@ ("STOREI8" :> 23) @@
    ("STOREI32" :> 24) @@ ("LOADI16" :> 25) @@ ("STOREI16" :> 26) @@ ("STRLEN" :> 27) @@
    ("STRCPY" :> 28) @@ ("STRCAT" :> 29) @@ ("STRCMP" :> 30) @@ ("STRCLR" :> 31) @@
    ("ADD" :> 32) @@ ("SUB" :> 33) @@ ("MUL" :> 34) @@ ("DIV" :> 35) @@
    ("MOD" :> 36) @@ ("NEG" :> 37) @@ ("ABS" :> 38) @@ ("ADDF" :> 40) @@
    ("SUBF" :> 41) @@ ("MULF" :> 42) @@ ("DIVF" :> 43) @@ ("NEGF" :> 44) @@
    ("ABSF" :> 45) @@ ("AND" :> 48) @@ ("OR" :> 49) @@ ("XOR" :> 50) @@
    ("NOT" :> 51) @@ ("SHL" :> 52) @@ ("SHR" :> 53) @@ ("SAR" :> 54) @@
    ("EQ" :> 56) @@ ("NE" :> 57) @@ ("LT" :> 58) @@ ("LE" :> 59) @@
    ("GT" :> 60) @@ ("GE" :> 61) @@ ("LTU" :> 62) @@ ("GTU" :> 63) @@
    ("PUSH8" :> 64) @@ ("PICK" :> 65) @@ ("JR" :> 80) @@ ("JRZ" :> 81) @@
    ("JRNZ" :> 82) @@ ("LOAD8" :> 128) @@ ("LOAD16" :> 129) @@ ("LOAD32" :> 130) @@
    ("LOAD64" :> 131) @@ ("STORE8" :> 132) @@ ("STORE16" :> 133) @@ ("STORE32" :> 134) @@
    ("STORE64" :> 135) @@ ("PUSH16" :> 136) @@ ("JMP" :> 144) @@ ("JZ" :> 145) @@
    ("JNZ" :> 146) @@ ("CALL" :> 147) @@ ("RET" :> 148) @@ ("I2F" :> 160) @@
    ("F2I" :> 161) @@ ("I2B" :> 162) @@ ("EXT8" :> 163) @@ ("EXT16" :> 164) @@
    ("ZEXT8" :> 165) @@ ("ZEXT16" :> 166) @@ ("PUSH32" :> 192)

\* default wait_for of send()
Prompt == "zplc:~$"

\* range(3) of the load loop and of the chunk loop of upload_bytecode
LoadAttempts == 3
ChunkAttempts == 3

\* chunk_size of upload_bytecode, in hex characters
chunk_size == 32

\* binascii.hexlify(bytearray(bytes)).decode(), bytearray.hex(): two
\* lower-case digits a byte
RECURSIVE hexlify(_)
hexlify(bytes) ==
    IF bytes = <<>> THEN ""
    ELSE Char(HexDigits, (Head(bytes) \div 16) + 1)
         \o Char(HexDigits, (Head(bytes) % 16) + 1) \o hexlify(Tail(bytes))

\* hex_data[i : i + chunk_size]
chunk(hex_data, i) ==
    SubSeq(hex_data, i + 1,
           IF i + chunk_size < Len(hex_data) THEN i + chunk_size ELSE Len(hex_data))

\* self.send(cmd, wait_for): the input buffer is drained, cmd and "\r\n" are
\* written, and the answer is read until it holds wait_for (seen) or until
\* the timeout has passed (not seen)
send(cmd, wait_for, seen) ==
    Append(hil_wire, [cmd |-> cmd, wait_for |-> wait_for, seen |-> seen])

\* self.ser.write(cmd + "\r\n"): written without draining and without waiting
write(cmd) ==
    Append(hil_wire, [cmd |-> cmd, wait_for |-> "", seen |-> FALSE])

\* the statements ops (time.sleep, ser.reset_input_buffer) executed after
\* the send of this step
after_send(ops) ==
    hil_steps \o [k \in 1..Len(ops) |-> [at |-> Len(hil_wire) + 1, op |-> ops[k]]]

\* the statement that follows self.upload_bytecode(bytecode) in the caller
after_upload(method) ==
    CASE method \in {"run_bytecode", "run_st"} -> "start_and_capture.mode"
      [] method = "compile_and_run" -> "start_and_wait.mode"
      [] OTHER -> "returned"

\* the else branch of the load loop that goes on to the chunk loop
load_failed_goes_on(method, hex_data) ==
    IF Len(hex_data) > 0 THEN "upload_bytecode.data" ELSE "upload_bytecode.end"

\* the else branch of the load loop: ERROR is printed and the method returns
load_failed(method, hex_data) == after_upload(method)

\* the else branch of one chunk's retry loop that stays in the chunk loop
chunk_failed_goes_on(method) == "upload_bytecode.data"

\* the else branch of the retry loop of one chunk: ERROR, then return
chunk_failed(method) == after_upload(method)

HilInit ==
    /\ hil_call = [method |-> "none", bytecode |-> <<>>, reset |-> FALSE]
    /\ hil_pc = "idle"
    /\ hil_attempt = 0
    /\ hil_i = 0
    /\ hil_wire = <<>>
    /\ hil_steps = <<>>
    /\ hil_out = <<>>
    /\ hil_resp = ""
    /\ hil_result = None
    /\ hil_error = None

\* the statements of a run method after it has its bytecode: reset_state()
\* if reset, then upload_bytecode()
Enter(method, bytes, reset) ==
    /\ hil_call' = [method |-> method, bytecode |-> bytes, reset |-> reset]
    /\ hil_pc' = IF reset THEN "reset_state.stop" ELSE "upload_bytecode.stop"
    /\ UNCHANGED <<hil_attempt, hil_i, hil_wire, hil_steps, hil_error>>

\* tester.upload_bytecode(bytecode), called on its own
UploadBytecode(bytes) ==
    /\ hil_pc = "idle"
    /\ Enter("upload_bytecode", bytes, FALSE)
    /\ UNCHANGED <<hil_out, hil_resp, hil_result, tool_vars>>

\* tester.run_bytecode(bytecode, reset) up to its first send
RunBytecode(bytes, reset) ==
    /\ hil_pc = "idle"
    /\ Enter("run_bytecode", bytes, reset)
    /\ UNCHANGED <<hil_out, hil_resp, hil_result, tool_vars>>

\* compile_st(st_file): the compiler exits non-zero (compiled = None) and
\* an Exception is raised, or the bytes of the output file are returned
CompileSt(method, compiled, reset) ==
    IF compiled = None
    THEN /\ hil_call' = [method |-> method, bytecode |-> <<>>, reset |-> reset]
         /\ hil_pc' = "raised"
         /\ hil_error' = Some("Compilation failed")
         /\ UNCHANGED <<hil_attempt, hil_i, hil_wire, hil_steps>>
    ELSE Enter(method, compiled[1], reset)

\* tester.run_st(st_file, reset) up to its first send
RunSt(compiled, reset) ==
    /\ hil_pc = "idle"
    /\ CompileSt("run_st", compiled, reset)
    /\ UNCHANGED <<hil_out, hil_resp, hil_result, tool_vars>>

\* tester.compile_and_run(source_file, reset) up to its first send
CompileAndRun(compiled, reset) ==
    /\ hil_pc = "idle"
    /\ hil_out' = Append(hil_out, "Compiling")
    /\ CompileSt("compile_and_run", compiled, reset)
    /\ UNCHANGED <<hil_resp, hil_result, tool_vars>>

\* reset_state that sends reset before stop
reset_state_cmd_reset_first(at) ==
    CASE at = "reset_state.stop" -> "zplc reset"
      [] at = "reset_state.reset" -> "zplc stop"
      [] OTHER -> "zplc persist clear"

\* the command reset_state sends at a position of its body
reset_state_cmd(at) ==
    CASE at = "reset_state.stop" -> "zplc stop"
      [] at = "reset_state.reset" -> "zplc reset"
      [] OTHER -> "zplc persist clear"

\* reset_state(): stop, reset, persist clear, each answer discarded, then
\* the settle delay
ResetState(seen) ==
    /\ hil_pc \in {"reset_state.stop", "reset_state.reset", "reset_state.persist"}
    /\ hil_wire' = send(reset_state_cmd(hil_pc), Prompt, seen)
    /\ hil_steps' = after_send(IF hil_pc = "reset_state.persist"
                               THEN <<"sleep 0.5">> ELSE <<>>)
    /\ hil_pc' = CASE hil_pc = "reset_state.stop" -> "reset_state.reset"
                   [] hil_pc = "reset_state.reset" -> "reset_state.persist"
                   [] OTHER -> "upload_bytecode.stop"
    /\ UNCHANGED <<hil_call, hil_attempt, hil_i, hil_out, hil_resp, hil_result,
                   hil_error, tool_vars>>

\* upload_bytecode(): the two sends before the load loop
UploadStopReset(seen) ==
    /\ hil_pc \in {"upload_bytecode.stop", "upload_bytecode.reset"}
    /\ hil_wire' = send(IF hil_pc = "upload_bytecode.stop"
                        THEN "zplc stop" ELSE "zplc reset", Prompt, seen)
    /\ hil_pc' = IF hil_pc = "upload_bytecode.stop"
                 THEN "upload_bytecode.reset" ELSE "upload_bytecode.load"
    /\ hil_attempt' = 0
    /\ UNCHANGED <<hil_call, hil_i, hil_steps, hil_out, hil_resp, hil_result,
                   hil_error, tool_vars>>

\* upload_bytecode(): one iteration of the load loop, and what follows it
\* when the loop ends
UploadLoad(seen) ==
    /\ hil_pc = "upload_bytecode.load"
    /\ hil_wire' = send("zplc load " \o ToString(Len(hil_call.bytecode)), "OK:", seen)
    /\ IF seen
       THEN /\ hil_pc' = IF Len(hil_call.bytecode) > 0
                         THEN "upload_bytecode.data" ELSE "upload_bytecode.end"
            /\ hil_attempt' = 0
            /\ hil_i' = 0
            /\ hil_out' = hil_out
            /\ hil_steps' = hil_steps
       ELSE IF hil_attempt + 1 < LoadAttempts
       THEN /\ hil_pc' = hil_pc
            /\ hil_attempt' = hil_attempt + 1
            /\ hil_i' = hil_i
            /\ hil_out' = Append(hil_out, "WARN: zplc load retry")
            /\ hil_steps' = after_send(<<"sleep 0.5">>)
       ELSE /\ hil_pc' = load_failed(hil_call.method, hexlify(hil_call.bytecode))
            /\ hil_attempt' = 0
            /\ hil_i' = 0
            /\ hil_out' = hil_out \o <<"WARN: zplc load retry", "ERROR: zplc load failed">>
            /\ hil_steps' = after_send(<<"sleep 0.5">>)
    /\ UNCHANGED <<hil_call, hil_resp, hil_result, hil_error, tool_vars>>

\* upload_bytecode(): one attempt at the chunk that starts at hex_data[i]
UploadData(seen) ==
    /\ hil_pc = "upload_bytecode.data"
    /\ hil_wire' = send("zplc data " \o chunk(hexlify(hil_call.bytecode), hil_i), "OK:", seen)
    /\ IF seen
       THEN /\ hil_pc' = IF hil_i + chunk_size < 2 * Len(hil_call.bytecode)
                         THEN hil_pc ELSE "upload_bytecode.end"
            /\ hil_i' = hil_i + chunk_size
            /\ hil_attempt' = 0
            /\ hil_out' = hil_out
            /\ hil_steps' = after_send(<<"sleep 0.05">>)
       ELSE IF hil_attempt + 1 < ChunkAttempts
       THEN /\ hil_pc' = hil_pc
            /\ hil_i' = hil_i
            /\ hil_attempt' = hil_attempt + 1
            /\ hil_out' = Append(hil_out, "WARN: Chunk retry")
            /\ hil_steps' = after_send(<<"sleep 0.5">>)
       ELSE /\ hil_pc' = chunk_failed(hil_call.method)
            /\ hil_i' = hil_i
            /\ hil_attempt' = 0
            /\ hil_out' = hil_out \o <<"WARN: Chunk retry", "ERROR: zplc data chunk failed after retries">>
            /\ hil_steps' = after_send(<<"sleep 0.5">>)
    /\ UNCHANGED <<hil_call, hil_resp, hil_result, hil_error, tool_vars>>

\* upload_bytecode(): the empty command after the last chunk, then return
UploadEnd(seen) ==
    /\ hil_pc = "upload_bytecode.end"
    /\ hil_wire' = send("", Prompt, seen)
    /\ hil_pc' = after_upload(hil_call.method)
    /\ UNCHANGED <<hil_call, hil_attempt, hil_i, hil_steps, hil_out, hil_resp,
                   hil_result, hil_error, tool_vars>>

\* start_and_capture(): verbose mode is selected, its answer discarded,
\* and the input buffer is reset
StartAndCapture(seen) ==
    /\ hil_pc = "start_and_capture.mode"
    /\ hil_wire' = send("zplc hil mode verbose", Prompt, seen)
    /\ hil_steps' = after_send(<<"reset_input_buffer">>)
    /\ hil_pc' = "start_and_capture.start"
    /\ UNCHANGED <<hil_call, hil_attempt, hil_i, hil_out, hil_resp, hil_result,
                   hil_error, tool_vars>>

\* kinds that let the log records through as well
TraceKinds_with_log == {"opcode", "error", "task", "fb", "ack", "log"}

\* the values of "t" that start_and_capture keeps
TraceKinds == {"opcode", "error", "task", "fb", "ack"}

\* the objects the device sends, by their JSON text without white space
JsonObjects ==
    ("{\"t\":\"opcode\",\"pc\":1}" :> [t |-> "opcode", pc |-> 1]) @@
    ("{\"t\":\"error\",\"code\":2}" :> [t |-> "error", code |-> 2]) @@
    ("{\"t\":\"task\"}" :> [t |-> "task"]) @@
    ("{\"t\":\"fb\"}" :> [t |-> "fb"]) @@
    ("{\"t\":\"fb\",\"v\":{\"a\":1}}" :> [t |-> "fb", v |-> [a |-> 1]]) @@
    ("{\"t\":\"ack\"}" :> [t |-> "ack"]) @@
    ("{\"t\":\"log\"}" :> [t |-> "log"]) @@
    ("{\"pc\":1}" :> [pc |-> 1]) @@
    ("{}" :> <<>>)

\* the text without JSON white space (the texts above hold none inside a
\* string), computed by halves
RECURSIVE Unspaced(_)
Unspaced(s) ==
    IF Len(s) = 0 THEN ""
    ELSE IF Len(s) = 1 THEN (IF s \in {" ", "\t", "\r", "\n"} THEN "" ELSE s)
    ELSE Unspaced(SubSeq(s, 1, Len(s) \div 2))
         \o Unspaced(SubSeq(s, (Len(s) \div 2) + 1, Len(s)))

\* json.loads(text): the object, or None for json.JSONDecodeError
json_loads(text) ==
    LET Known(t) == IF t \in DOMAIN JsonObjects THEN Some(JsonObjects[t]) ELSE None
    IN  Known(Unspaced(text))

\* str.find(c): 0-based index of the first c, -1 if there is none
find(s, c) ==
    IF \E i \in 1..Len(s) : Char(s, i) = c
    THEN (CHOOSE i \in 1..Len(s) : Char(s, i) = c /\ \A j \in 1..(i - 1) : Char(s, j) # c) - 1
    ELSE -1

\* the body of the loop of start_and_capture for the characters of text
\* from index i on, one character a turn: st holds buffer and traces
RECURSIVE capture_chars(_, _, _)
capture_chars(text, i, st) ==
    LET Kept(data) ==
            IF data # None /\ "t" \in DOMAIN data[1] /\ data[1]["t"] \in TraceKinds
            THEN Append(st.traces, data[1]) ELSE st.traces
        Cut(b, start_idx, end_idx) ==
            IF start_idx # -1 /\ end_idx > start_idx
            THEN [buffer |-> SubSeq(b, end_idx + 2, Len(b)),
                  traces |-> Kept(json_loads(SubSeq(b, start_idx + 1, end_idx + 1)))]
            ELSE [buffer |-> b, traces |-> st.traces]
        Fed(b) ==
            IF find(b, "}") # -1
            THEN capture_chars(text, i + 1, Cut(b, find(b, "{"), find(b, "}")))
            ELSE capture_chars(text, i + 1, [buffer |-> b, traces |-> st.traces])
    IN  IF i > Len(text) THEN st ELSE Fed(st.buffer \o Char(text, i))

\* the loop of start_and_capture over what arrives during duration, given
\* as the texts that arrive one after the other from the n-th on
RECURSIVE capture(_, _, _)
capture(arrivals, n, st) ==
    IF n > Len(arrivals) THEN st
    ELSE capture(arrivals, n + 1, capture_chars(arrivals[n], 1, st))

\* the texts one after the other
RECURSIVE Joined(_)
Joined(texts) == IF texts = <<>> THEN "" ELSE Head(texts) \o Joined(Tail(texts))

\* start_and_capture(): start is written with ser.write, and the records
\* found in what arrives during duration are returned
Capture(arrivals) ==
    /\ hil_pc = "start_and_capture.start"
    /\ hil_wire' = write("zplc start")
    /\ hil_resp' = Joined(arrivals)
    /\ hil_result' = Some(capture(arrivals, 1, [buffer |-> "", traces |-> <<>>]).traces)
    /\ hil_pc' = "returned"
    /\ UNCHANGED <<hil_call, hil_attempt, hil_i, hil_steps, hil_out, hil_error, tool_vars>>

\* the command start_and_wait sends at a position of its body
start_and_wait_cmd(at) ==
    CASE at = "start_and_wait.mode" -> "zplc hil mode off"
      [] at = "start_and_wait.start" -> "zplc start"
      [] OTHER -> "zplc stop"

\* start_and_wait that returns once the pause after start is over
start_and_wait_no_stop(at) ==
    CASE at = "start_and_wait.mode" -> "start_and_wait.start"
      [] OTHER -> "returned"

\* the position of start_and_wait after the send at a position
start_and_wait_next(at) ==
    CASE at = "start_and_wait.mode" -> "start_and_wait.start"
      [] at = "start_and_wait.start" -> "start_and_wait.stop"
      [] OTHER -> "returned"

\* start_and_wait(): HIL mode off, start, the pause, stop; compile_and_run,
\* its only caller here, prints a line before it calls
StartAndWait(seen) ==
    /\ hil_pc \in {"start_and_wait.mode", "start_and_wait.start", "start_and_wait.stop"}
    /\ hil_wire' = send(start_and_wait_cmd(hil_pc), Prompt, seen)
    /\ hil_steps' = after_send(CASE hil_pc = "start_and_wait.mode" -> <<"reset_input_buffer">>
                                 [] hil_pc = "start_and_wait.start" -> <<"sleep duration">>
                                 [] OTHER -> <<>>)
    /\ hil_pc' = start_and_wait_next(hil_pc)
    /\ hil_out' = CASE hil_pc = "start_and_wait.mode" -> Append(hil_out, "Running")
                    [] hil_pc = "start_and_wait.start" ->
                           Append(hil_out, "DEBUG: Start response")
                    [] OTHER -> hil_out
    /\ UNCHANGED <<hil_call, hil_attempt, hil_i, hil_resp, hil_result, hil_error, tool_vars>>

\* a call of a method that takes no bytecode
Called(method) == [method |-> method, bytecode |-> <<>>, reset |-> FALSE]

\* LanguageTester.start_running(): HIL mode off, the input buffer reset,
\* start, a short pause
StartRunning(seen) ==
    /\ \/ hil_pc = "idle" /\ hil_call' = Called("start_running")
       \/ hil_pc = "start_running.start" /\ hil_call' = hil_call
    /\ hil_wire' = send(IF hil_pc = "idle" THEN "zplc hil mode off" ELSE "zplc start",
                        Prompt, seen)
    /\ hil_steps' = after_send(IF hil_pc = "idle" THEN <<"reset_input_buffer">>
                               ELSE <<"sleep 0.1">>)
    /\ hil_pc' = IF hil_pc = "idle" THEN "start_running.start" ELSE "returned"
    /\ UNCHANGED <<hil_attempt, hil_i, hil_out, hil_resp, hil_result, hil_error, tool_vars>>

\* LanguageTester.stop_running(): the stop command and nothing else
StopRunning(seen) ==
    /\ hil_pc = "idle"
    /\ hil_call' = Called("stop_running")
    /\ hil_wire' = send("zplc stop", Prompt, seen)
    /\ hil_pc' = "returned"
    /\ UNCHANGED <<hil_attempt, hil_i, hil_steps, hil_out, hil_resp, hil_result,
                   hil_error, tool_vars>>

\* the test script goes on to its next call on the same tester
NextCall ==
    /\ hil_pc = "returned"
    /\ hil_pc' = "idle"
    /\ UNCHANGED <<hil_call, hil_attempt, hil_i, hil_wire, hil_steps, hil_out,
                   hil_resp, hil_result, hil_error, tool_vars>>

\* hex(n) for n >= 0: lower-case digits, no padding
RECURSIVE HexLower(_)
HexLower(n) ==
    IF n < 16 THEN Char(HexDigits, n + 1)
    ELSE HexLower(n \div 16) \o Char(HexDigits, (n % 16) + 1)

hex(n) == "0x" \o HexLower(n)

\* str.splitlines() from index i on, cur being the line collected so far:
\* lines end at "\r\n", "\n" or "\r"
RECURSIVE splitlines(_, _, _)
splitlines(s, i, cur) ==
    IF i > Len(s) THEN (IF cur = "" THEN <<>> ELSE <<cur>>)
    ELSE IF Char(s, i) = "\r" /\ i < Len(s) /\ Char(s, i + 1) = "\n"
    THEN <<cur>> \o splitlines(s, i + 2, "")
    ELSE IF Char(s, i) \in {"\r", "\n"} THEN <<cur>> \o splitlines(s, i + 1, "")
    ELSE splitlines(s, i + 1, cur \o Char(s, i))

\* line.split(":")[1] of a line that holds a colon: the text between the
\* first colon and the second one, or the end of the line
data_part(line) ==
    LET UpToColon(rest) ==
            IF find(rest, ":") = -1 THEN rest ELSE SubSeq(rest, 1, find(rest, ":"))
    IN  UpToColon(SubSeq(line, find(line, ":") + 2, Len(line)))

\* the characters [0-9A-Fa-f]
HexChars == CharsOf(HexDigits) \cup CharsOf("ABCDEF")

\* re.findall(r"([0-9A-Fa-f]{2})", s) from index i on: leftmost matches
\* that do not overlap
RECURSIVE hex_matches(_, _)
hex_matches(s, i) ==
    IF i + 1 > Len(s) THEN <<>>
    ELSE IF Char(s, i) \in HexChars /\ Char(s, i + 1) \in HexChars
    THEN <<SubSeq(s, i, i + 1)>> \o hex_matches(s, i + 2)
    ELSE hex_matches(s, i + 1)

\* the loop of peek over the lines from index n on: bytes_out
RECURSIVE bytes_out(_, _)
bytes_out(lines, n) ==
    LET Ints(hvs) == [k \in 1..Len(hvs) |-> PyInt(hvs[k], 16).val]
    IN  IF n > Len(lines) THEN <<>>
        ELSE IF find(lines[n], ":") # -1
        THEN Ints(hex_matches(data_part(lines[n]), 1)) \o bytes_out(lines, n + 1)
        ELSE bytes_out(lines, n + 1)

\* a slice that fills a short list up to n with zero bytes
slice_to_padded(seq, n) ==
    [k \in 1..(IF n >= 0 THEN n ELSE 0) |-> IF k <= Len(seq) THEN seq[k] ELSE 0]

\* seq[:n]
slice_to(seq, n) ==
    IF n >= 0 THEN SubSeq(seq, 1, IF n < Len(seq) THEN n ELSE Len(seq))
    ELSE SubSeq(seq, 1, Len(seq) + n)

\* the value peek returns for a response
peek_bytes(resp, length) == slice_to(bytes_out(splitlines(resp, 1, ""), 1), length)

\* tester.peek(addr, length): one send; resp is what was read until the
\* prompt was seen or the timeout passed
Peek(addr, length, resp) ==
    /\ hil_pc = "idle"
    /\ hil_call' = [method |-> "peek", bytecode |-> <<>>, reset |-> FALSE,
                    addr |-> addr, length |-> length]
    /\ hil_wire' = send("zplc dbg peek " \o hex(addr) \o " " \o ToString(length),
                        Prompt, Contains(resp, Prompt))
    /\ hil_resp' = resp
    /\ hil_result' = Some(peek_bytes(resp, length))
    /\ hil_pc' = "returned"
    /\ UNCHANGED <<hil_attempt, hil_i, hil_steps, hil_out, hil_error, tool_vars>>

\* the bytes of value with the most significant byte first
poke_data_big_endian(value, size) ==
    CASE size = 1 -> [raised |-> None, data |-> <<value.lo % 256>>]
      [] size = 2 -> [raised |-> None, data |-> <<value.lo \div 256, value.lo % 256>>]
      [] OTHER -> [raised |-> None,
                   data |-> <<value.hi \div 256, value.hi % 256,
                              value.lo \div 256, value.lo % 256>>]

\* struct.pack("<H", value) and struct.pack("<I", value), value & 0xFF and
\* the empty bytearray of any other size; value is given by its 16-bit
\* halves, value = 65536 * hi + lo
poke_data(value, size) ==
    CASE size = 1 -> [raised |-> None, data |-> <<value.lo % 256>>]
      [] size = 2 ->
          IF value.hi = 0
          THEN [raised |-> None, data |-> <<value.lo % 256, value.lo \div 256>>]
          ELSE [raised |-> Some("ushort format requires 0 <= number <= 65535"),
                data |-> <<>>]
      [] size = 4 ->
          [raised |-> None,
           data |-> <<value.lo % 256, value.lo \div 256,
                      value.hi % 256, value.hi \div 256>>]
      [] OTHER -> [raised |-> None, data |-> <<>>]

\* tester.poke(address, value, size): struct.error, or one send whose
\* answer is discarded
Poke(address, value, size, seen) ==
    /\ hil_pc = "idle"
    /\ hil_call' = [method |-> "poke", bytecode |-> <<>>, reset |-> FALSE,
                    address |-> address, value |-> value, size |-> size]
    /\ \E p \in {poke_data(value, size)} :
          IF p.raised # None
          THEN /\ hil_error' = p.raised
               /\ hil_pc' = "raised"
               /\ hil_wire' = hil_wire
          ELSE /\ hil_error' = hil_error
               /\ hil_pc' = "returned"
               /\ hil_wire' = send("zplc dbg poke " \o hex(address) \o " " \o hexlify(p.data),
                                   Prompt, seen)
    /\ UNCHANGED <<hil_attempt, hil_i, hil_steps, hil_out, hil_resp, hil_result, tool_vars>>

(***************************************************************************)
(* One retry loop of upload_bytecode, statement by statement, with the     *)
(* serial port between the tester and a device that answers when it likes  *)
(***************************************************************************)
\* a drain that leaves the buffer as it found it
drained_nothing(buffer) == buffer

\* while self.ser.in_waiting: self.ser.read(...): the buffer when the loop
\* has found it empty
drained(buffer) == <<>>

\* the characters of a text that arrives now
Marked(text) ==
    [k \in 1..Len(text) |-> [c |-> Char(text, k), w |-> ser_writes, d |-> ser_drains]]

\* the text that marked bytes spell
RECURSIVE TextOfBytes(_)
TextOfBytes(bytes) ==
    IF bytes = <<>> THEN "" ELSE Head(bytes).c \o TextOfBytes(Tail(bytes))

SerInit ==
    /\ ser_loop = "none"
    /\ ser_pc = "idle"
    /\ ser_attempt = 0
    /\ ser_in = <<>>
    /\ ser_response = <<>>
    /\ ser_writes = 0
    /\ ser_drains = 0
    /\ ser_arrived = 0
    /\ ser_hex = ""
    /\ ser_i = 0
    /\ dev_rx = <<>>
    /\ dev_data = ""

\* the device sends a text: its bytes join the input buffer
Arrive(text) ==
    /\ ser_in' = ser_in \o Marked(text)
    /\ ser_arrived' = ser_arrived + 1
    /\ UNCHANGED <<ser_loop, ser_pc, ser_attempt, ser_response, ser_writes, ser_drains,
                   ser_hex, ser_i, dev_rx, dev_data,
                   asm_vars, dis_vars, isa_vars, file_vars, hil_vars>>

\* for attempt in range(3): the load loop or the loop of one chunk begins
LoopBegin(loop) ==
    /\ ser_pc = "idle"
    /\ ser_loop' = loop
    /\ ser_attempt' = 0
    /\ ser_pc' = "loop.drain"
    /\ UNCHANGED <<ser_in, ser_response, ser_writes, ser_drains, ser_arrived,
                   ser_hex, ser_i, dev_rx, dev_data,
                   asm_vars, dis_vars, isa_vars, file_vars, hil_vars>>

\* the drain loop at the head of an attempt, and the same loop at the head
\* of send()
Drain ==
    /\ ser_pc \in {"loop.drain", "send.drain"}
    /\ ser_in' = drained(ser_in)
    /\ ser_drains' = ser_drains + 1
    /\ ser_pc' = IF ser_pc = "loop.drain" THEN "send.drain" ELSE "send.write"
    /\ UNCHANGED <<ser_loop, ser_attempt, ser_response, ser_writes, ser_arrived,
                   ser_hex, ser_i, dev_rx, dev_data,
                   asm_vars, dis_vars, isa_vars, file_vars, hil_vars>>

\* the command that upload_bytecode sends at its position
ser_cmd ==
    CASE ser_loop = "stop" -> "zplc stop"
      [] ser_loop = "reset" -> "zplc reset"
      [] ser_loop = "load" -> "zplc load " \o ToString(Len(ser_hex) \div 2)
      [] ser_loop = "data" -> "zplc data " \o chunk(ser_hex, ser_i)
      [] OTHER -> ""

\* the wait_for of that send
ser_wait_for == IF ser_loop \in {"load", "data"} THEN "OK:" ELSE Prompt

\* send(): self.ser.write(...), then response = ""
Write ==
    /\ ser_pc = "send.write"
    /\ ser_writes' = ser_writes + 1
    /\ dev_rx' = Append(dev_rx, ser_cmd)
    /\ ser_response' = <<>>
    /\ ser_pc' = "send.read"
    /\ UNCHANGED <<ser_loop, ser_attempt, ser_in, ser_drains, ser_arrived,
                   ser_hex, ser_i, dev_data,
                   asm_vars, dis_vars, isa_vars, file_vars, hil_vars>>

\* send(): one turn of the read loop that finds a byte; send returns when
\* the response holds wait_for
Read ==
    /\ ser_pc = "send.read"
    /\ ser_in # <<>>
    /\ ser_in' = Tail(ser_in)
    /\ ser_response' = Append(ser_response, Head(ser_in))
    /\ ser_pc' = IF Contains(TextOfBytes(Append(ser_response, Head(ser_in))), ser_wait_for)
                 THEN "send.returned" ELSE ser_pc
    /\ UNCHANGED <<ser_loop, ser_attempt, ser_writes, ser_drains, ser_arrived,
                   ser_hex, ser_i, dev_rx, dev_data,
                   asm_vars, dis_vars, isa_vars, file_vars, hil_vars>>

\* send(): the timeout has passed, send returns what it has read
Timeout ==
    /\ ser_pc = "send.read"
    /\ ser_pc' = "send.returned"
    /\ UNCHANGED <<ser_loop, ser_attempt, ser_in, ser_response, ser_writes, ser_drains,
                   ser_arrived, ser_hex, ser_i, dev_rx, dev_data,
                   asm_vars, dis_vars, isa_vars, file_vars, hil_vars>>

\* AttemptEnd with range(4) in place of range(3)
AttemptEnd_one_more ==
    /\ ser_pc = "send.returned"
    /\ ser_loop \in {"load", "data"}
    /\ IF Contains(TextOfBytes(ser_response), "OK:")
       THEN ser_pc' = "acknowledged" /\ ser_attempt' = ser_attempt
       ELSE IF ser_attempt + 1 < LoadAttempts + 1
       THEN ser_pc' = "loop.drain" /\ ser_attempt' = ser_attempt + 1
       ELSE ser_pc' = "failed" /\ ser_attempt' = ser_attempt
    /\ UNCHANGED <<ser_loop, ser_in, ser_response, ser_writes, ser_drains, ser_arrived,
                   ser_hex, ser_i, dev_rx, dev_data,
                   asm_vars, dis_vars, isa_vars, file_vars, hil_vars>>

\* if "OK:" in resp: break; otherwise the next attempt, or the else branch
\* of the loop after the last one
AttemptEnd ==
    /\ ser_pc = "send.returned"
    /\ ser_loop \in {"load", "data"}
    /\ IF Contains(TextOfBytes(ser_response), "OK:")
       THEN ser_pc' = "acknowledged" /\ ser_attempt' = ser_attempt
       ELSE IF ser_attempt + 1 < LoadAttempts
       THEN ser_pc' = "loop.drain" /\ ser_attempt' = ser_attempt + 1
       ELSE ser_pc' = "failed" /\ ser_attempt' = ser_attempt
    /\ UNCHANGED <<ser_loop, ser_in, ser_response, ser_writes, ser_drains, ser_arrived,
                   ser_hex, ser_i, dev_rx, dev_data,
                   asm_vars, dis_vars, isa_vars, file_vars, hil_vars>>

\* upload_bytecode(bytecode) is called and comes to its first send
UploadLoops(bytes) ==
    /\ ser_pc = "idle"
    /\ ser_hex' = hexlify(bytes)
    /\ ser_i' = 0
    /\ ser_loop' = "stop"
    /\ ser_attempt' = 0
    /\ ser_pc' = "send.drain"
    /\ UNCHANGED <<ser_in, ser_response, ser_writes, ser_drains, ser_arrived, dev_rx,
                   dev_data, asm_vars, dis_vars, isa_vars, file_vars, hil_vars>>

\* a send outside the retry loops has returned: after stop comes reset,
\* after reset the load loop, and after the last send upload_bytecode
\* returns
SendDone ==
    /\ ser_pc = "send.returned"
    /\ ser_loop \in {"stop", "reset", "end"}
    /\ ser_loop' = CASE ser_loop = "stop" -> "reset"
                     [] ser_loop = "reset" -> "load"
                     [] OTHER -> ser_loop
    /\ ser_pc' = CASE ser_loop = "stop" -> "send.drain"
                   [] ser_loop = "reset" -> "loop.drain"
                   [] OTHER -> "uploaded"
    /\ UNCHANGED <<ser_attempt, ser_in, ser_response, ser_writes, ser_drains, ser_arrived,
                   ser_hex, ser_i, dev_rx, dev_data, asm_vars, dis_vars, isa_vars,
                   file_vars, hil_vars>>

\* after the break of a retry loop: for i in range(0, len(hex_data),
\* chunk_size) enters the loop of the next chunk, or is over and
\* upload_bytecode comes to its last send
LoopNext ==
    /\ ser_pc = "acknowledged"
    /\ \E i \in {IF ser_loop = "load" THEN 0 ELSE ser_i + chunk_size} :
           IF i < Len(ser_hex)
           THEN ser_i' = i /\ ser_loop' = "data" /\ ser_pc' = "loop.drain"
           ELSE ser_i' = ser_i /\ ser_loop' = "end" /\ ser_pc' = "send.drain"
    /\ ser_attempt' = 0
    /\ UNCHANGED <<ser_in, ser_response, ser_writes, ser_drains, ser_arrived, ser_hex,
                   dev_rx, dev_data, asm_vars, dis_vars, isa_vars, file_vars, hil_vars>>

\* the device handles the oldest command it has received: load empties
\* what it holds, data adds the hex digits of the command, and both are
\* answered with the success token, any other command with the prompt;
\* the answer reaches the tester unless it is lost
DeviceHandle(answered) ==
    /\ dev_rx # <<>>
    /\ dev_rx' = Tail(dev_rx)
    /\ dev_data' = IF StartsWith(Head(dev_rx), "zplc load ") THEN ""
                   ELSE IF StartsWith(Head(dev_rx), "zplc data ")
                   THEN dev_data \o SubSeq(Head(dev_rx), Len("zplc data ") + 1,
                                           Len(Head(dev_rx)))
                   ELSE dev_data
    /\ ser_in' = IF ~answered THEN ser_in
                 ELSE IF StartsWith(Head(dev_rx), "zplc load ")
                         \/ StartsWith(Head(dev_rx), "zplc data ")
                 THEN ser_in \o Marked("OK:")
                 ELSE ser_in \o Marked(Prompt)
    /\ UNCHANGED <<ser_loop, ser_pc, ser_attempt, ser_response, ser_writes, ser_drains,
                   ser_arrived, ser_hex, ser_i, asm_vars, dis_vars, isa_vars, file_vars,
                   hil_vars>>

(***************************************************************************)
(* Specifications                                                          *)
(***************************************************************************)
\* longest source, in lines, handed to assemble
MaxLines == 4

\* every source of at most MaxLines lines over a vocabulary of lines
Sources(vocabulary) == UNION {[1..n -> vocabulary] : n \in 0..MaxLines}

\* a fresh ZPLCAssembler, as main() creates it, assembles one source
Init == AsmInit /\ DisInit /\ IsaInit /\ FileInit /\ HilInit /\ SerInit

\* straight-line programs, operands of every width, one relative branch
ProgramLines ==
    {"PUSH8 10", "PUSH8 20", "ADD", "HALT", "PUSH8 300",
     "  push16 0x1234 ; c", "top: JRNZ top", "RET"}

Next ==
    \/ pc = "idle" /\ \E src \in Sources(ProgramLines) : AssembleBegin(src)
    \/ ParseLine
    \/ ResolveLabels
    \/ EmitBytecode
    \/ DisassembleBegin
    \/ DisassembleStep

Spec == Init /\ [][Next]_vars

\* branches and label references, near and far
BranchLines ==
    {"loop: JR loop", "JRZ end", "end: HALT", ".ORG 200", "JR 200",
     "JMP end", ".ORG 0x10000", "PUSH8 end"}

NextBranch ==
    \/ pc = "idle" /\ \E src \in Sources(BranchLines) : AssembleBegin(src)
    \/ ParseLine
    \/ ResolveLabels
    \/ EmitBytecode

SpecBranch == Init /\ [][NextBranch]_vars

\* label definitions and entry points
LabelLines ==
    {"loop: NOP", "LOOP: HALT", ".ENTRY Loop", ".ENTRY nowhere",
     "JMP loop", "JMP nowhere", ".ENTRY 0"}

NextLabel ==
    \/ pc = "idle" /\ \E src \in Sources(LabelLines) : AssembleBegin(src)
    \/ ParseLine
    \/ ResolveLabels
    \/ EmitBytecode

SpecLabel == Init /\ [][NextLabel]_vars

\* the width lookup on every byte value
InitIsa == AsmInit /\ DisInit /\ FileInit /\ HilInit /\ SerInit /\ isa_opcode \in 0..255 /\ isa_result = None

NextIsa == IsaLookup

SpecIsa == InitIsa /\ [][NextIsa]_vars

(***************************************************************************)
(* Properties of the ISA table                                             *)
(***************************************************************************)
\* the width the ISA documents for a byte value: by range, with the
\* exceptions RET (0x94) and the conversions 0xA0..0xA6
DocumentedWidth(b) ==
    IF b \in 0..63 THEN 0
    ELSE IF b \in 64..127 THEN 1
    ELSE IF b \in 128..191 THEN (IF b = 148 \/ b \in 160..166 THEN 0 ELSE 2)
    ELSE 4

\* the width of the numeric range alone
RangeWidth(b) ==
    IF b \in 0..63 THEN 0 ELSE IF b \in 64..127 THEN 1 ELSE IF b \in 128..191 THEN 2 ELSE 4

\* C4: get_operand_size answers for every byte value, with the width of the
\* value's range except 0 for 0x94 and 0xA0..0xA6, and for every defined
\* opcode the OPERAND_SIZE table of the assembler holds the same width as
\* the call the disassembler makes.
C4_WidthTotalConsistent ==
    /\ isa_opcode \in 0..255
    /\ isa_result = None => ENABLED IsaLookup
    /\ isa_result # None =>
          /\ isa_result[1].size = DocumentedWidth(isa_opcode)
          /\ isa_opcode \in OpcodeValues =>
                isa_result[1].table = Some(isa_result[1].size)

\* the lookup has answered for RET, the exception inside the 2-byte range
C4_Witness == isa_result # None /\ isa_opcode = 148 /\ isa_result[1].size = 0

\* C5 as stated: the width lookup answers an unassigned byte value with an
\* outcome that is none of the widths.
C5_UnknownWidthOutcome ==
    (isa_result # None /\ isa_opcode \notin OpcodeValues)
        => isa_result[1].size \notin {0, 1, 2, 4}

\* C5 amended: get_operand_size answers an unassigned byte value with the
\* default width of its range; the distinct unknown outcome is that of the
\* opcode tables, which hold no entry for it (and hold one for every
\* assigned value).
C5_UnknownIsTableMiss ==
    isa_result # None =>
        /\ isa_opcode \notin OpcodeValues =>
              /\ isa_result[1].size = RangeWidth(isa_opcode)
              /\ isa_result[1].table = None
              /\ isa_result[1].name = None
        /\ isa_opcode \in OpcodeValues =>
              /\ isa_result[1].table # None
              /\ isa_result[1].name # None

\* the lookup has answered for 0x04, an unassigned value of the 0-byte range
C5_Witness == isa_result # None /\ isa_opcode = 4 /\ isa_result[1].name = None

(***************************************************************************)
(* Properties of assemble and disassemble                                  *)
(***************************************************************************)
\* byte offset in the emitted bytecode of the i-th instruction
RECURSIVE ByteOffset(_, _)
ByteOffset(instrs, i) ==
    IF i <= 1 THEN 0
    ELSE ByteOffset(instrs, i - 1) + 1 + get_operand_size(instrs[i - 1].opcode)

\* a byte read as a signed 8-bit value
Signed8(b) == IF b < 128 THEN b ELSE b - 256

\* the instructions that reference a label
LabelRefs == {i \in 1..Len(instructions) : instructions[i].operand_label # None}

\* the label an instruction references, as entered in the symbol table
RefLabel(i) == labels[Upper(instructions[i].operand_label[1])]

\* the operand value the source gives an instruction: the number written,
\* or for a label the address it stands for (for a relative branch the
\* distance to it)
SourceOperand(i) ==
    LET instr == instructions[i]
    IN  IF instr.operand_label = None THEN instr.operand[1]
        ELSE IF instr.opcode \in RelativeJumps
        THEN RefLabel(i).address - (instr.address + 2)
        ELSE RefLabel(i).address

\* the listing line that shows opcode and operand value of instruction i
ListingLine(i) ==
    LET instr == instructions[i]
        size == get_operand_size(instr.opcode)
        at == "0x" \o Hex(base_addr + ByteOffset(instructions, i), 4) \o ": "
        name == opcode_names[instr.opcode]
        v == SourceOperand(i)
    IN  IF size = 0 THEN at \o name
        ELSE IF size = 1 /\ instr.opcode \in RelativeJumps
        THEN at \o name \o " " \o ToString(v) \o " (-> 0x"
                \o Hex(base_addr + ByteOffset(instructions, i) + 2 + v, 4) \o ")"
        ELSE IF size = 1
        THEN at \o name \o " " \o ToString(v) \o " (0x" \o Hex(v, 2) \o ")"
        ELSE at \o name \o " 0x" \o Hex(v, 2 * size)

\* C1 as stated: the disassembly of the assembled bytes lists one
\* instruction per source instruction, in order, each with the opcode and
\* the operand value of the source.
C1_RoundTrip ==
    dis_state = "done" =>
        /\ Len(dis_lines) = Len(instructions)
        /\ \A i \in 1..Len(instructions) : dis_lines[i] = ListingLine(i)

\* C6: PUSH8 10, PUSH8 20, ADD, HALT assembles to 0x40 10 0x40 20 0x20 0x01
\* and the entry point stays 0.
C6_PushAddHalt ==
    (pc = "returned" /\ source = <<"PUSH8 10", "PUSH8 20", "ADD", "HALT">>)
        => /\ bytecode = Some(<<64, 10, 64, 20, 32, 1>>)
           /\ entry_point = EntryInt(0)

\* assemble has returned for exactly that source
C6_Witness ==
    /\ pc = "returned"
    /\ source = <<"PUSH8 10", "PUSH8 20", "ADD", "HALT">>
    /\ Len(bytecode[1]) = 6

\* C2: for every JR, JRZ, JRNZ that references a label in a successfully
\* assembled program, the emitted operand byte read as a signed 8-bit value
\* satisfies target_address = instruction_address + 2 + signed_offset.
C2_RelativeTarget ==
    pc = "returned" =>
        \A i \in LabelRefs :
            instructions[i].opcode \in RelativeJumps =>
                RefLabel(i).address =
                    instructions[i].address + 2
                    + Signed8(bytecode[1][ByteOffset(instructions, i) + 2])

\* a program has been assembled that branches backward and forward
C2_Witness ==
    /\ pc = "returned"
    /\ \E i, j \in LabelRefs :
          /\ instructions[i].opcode \in RelativeJumps
          /\ instructions[j].opcode \in RelativeJumps
          /\ RefLabel(i).address < instructions[i].address
          /\ RefLabel(j).address > instructions[j].address + 2

\* C3 as stated: no relative branch whose distance, taken from a label or
\* written as a number, lies outside [-128,127] survives assembly.
C3_RelativeRangeEnforced ==
    pc = "returned" =>
        \A i \in 1..Len(instructions) :
            instructions[i].opcode \in RelativeJumps =>
                SourceOperand(i) \in -128..127

\* C10 as stated: no label reference whose absolute address does not fit
\* the operand width of its instruction survives assembly.
C10_AbsoluteRangeEnforced ==
    pc = "returned" =>
        \A i \in LabelRefs :
            instructions[i].opcode \notin RelativeJumps =>
                /\ RefLabel(i).address >= 0
                /\ RefLabel(i).address < 256 ^ get_operand_size(instructions[i].opcode)

\* the source line without the label it defines, if it defines one
WithoutLabel(line) ==
    LET l == Strip(StripComment(line))
        m == LabelMatch(l)
    IN  IF m = None THEN line ELSE SubSeq(l, m[1].end + 1, Len(l))

\* for each label of a set, the two lines that define it at its address
RECURSIVE DefinitionsAt(_, _)
DefinitionsAt(names, lbls) ==
    IF names = {} THEN <<>>
    ELSE LET n == CHOOSE x \in names : TRUE
         IN  <<".ORG " \o ToString(lbls[n].address), n \o ":">>
                 \o DefinitionsAt(names \ {n}, lbls)

\* the same program with every label moved to the top: defined first, at
\* its final address, then the lines of src without their label definitions
LabelsFirst(src, lbls) ==
    DefinitionsAt(DOMAIN lbls, lbls) \o <<".ORG 0">>
        \o [i \in 1..Len(src) |-> WithoutLabel(src[i])]

\* C9: a successfully assembled program yields the same bytes as the same
\* program with every label defined before all references, at the same final
\* addresses: no byte depends on whether a reference is forward or backward.
C9_ForwardSameAsBackward ==
    pc = "returned" =>
        LET moved == assemble(LabelsFirst(source, labels))
        IN  /\ moved.raised = None
            /\ DOMAIN moved.labels = DOMAIN labels
            /\ \A n \in DOMAIN labels : moved.labels[n].address = labels[n].address
            /\ Len(moved.instructions) = Len(instructions)
            /\ \A i \in 1..Len(instructions) :
                  /\ moved.instructions[i].address = instructions[i].address
                  /\ moved.instructions[i].operand_label # None =>
                        moved.labels[Upper(moved.instructions[i].operand_label[1])].line_num
                            < moved.instructions[i].line_num
            /\ moved.bytes = bytecode[1]

\* a program with a forward reference to a label at a non-zero address has
\* been assembled
C9_Witness ==
    /\ pc = "returned"
    /\ \E i \in LabelRefs :
          /\ RefLabel(i).line_num > instructions[i].line_num
          /\ RefLabel(i).address > 0

\* the uppercased name of the label a source line defines, if any
DefinedLabel(line) ==
    LET m == LabelMatch(Strip(StripComment(line)))
    IN  IF m = None THEN None ELSE Some(Upper(m[1].group))

\* the names defined anywhere in a source
DefinedLabels(src) ==
    {DefinedLabel(src[i])[1] : i \in {k \in 1..Len(src) : DefinedLabel(src[k]) # None}}

\* line j defines a name that an earlier line defined (compared in upper case)
SecondDefinition(src, j) ==
    /\ DefinedLabel(src[j]) # None
    /\ \E i \in 1..(j - 1) : DefinedLabel(src[i]) = DefinedLabel(src[j])

EntryOperand(line) ==
    LET l == Strip(StripComment(line))
        m == LabelMatch(l)
        stmt == IF m = None THEN l ELSE Strip(SubSeq(l, m[1].end + 1, Len(l)))
        parts == Split1(stmt)
    IN  IF stmt # "" /\ Upper(parts[1]) = ".ENTRY"
        THEN Some(IF Len(parts) > 1 THEN Strip(parts[2]) ELSE "")
        ELSE None

\* the lines of a source that hold a .ENTRY directive naming a label
SymbolicEntries(src) ==
    {i \in 1..Len(src) : EntryOperand(src[i]) # None /\ IsIdentifier(EntryOperand(src[i])[1])}

\* the lines of a source that hold a .ENTRY directive
EntryDirectives(src) == {i \in 1..Len(src) : EntryOperand(src[i]) # None}

\* the last of a non-empty set of line numbers
Last(lines) == CHOOSE i \in lines : \A k \in lines : k <= i

\* C8 as stated: a program assembles only if every label named by an
\* instruction operand or by any .ENTRY directive is defined in the source.
C8_EveryNamedLabelDefined ==
    pc = "returned" =>
        /\ \A i \in LabelRefs :
              Upper(instructions[i].operand_label[1]) \in DefinedLabels(source)
        /\ \A i \in SymbolicEntries(source) :
              Upper(EntryOperand(source[i])[1]) \in DefinedLabels(source)

\* C8 amended: a program assembles only if every label named by an
\* instruction operand, and the label named by the last .ENTRY directive, is
\* defined in the source (names compared case-insensitively); the entry
\* point is then the address of that label, wherever the directive stands,
\* and an undefined-label failure returns no bytecode and occurs only when
\* such a name is indeed undefined.
C8_UndefinedLabelFatal ==
    /\ pc = "returned" =>
          /\ \A i \in LabelRefs :
                Upper(instructions[i].operand_label[1]) \in DefinedLabels(source)
          /\ (EntryDirectives(source) # {} /\ Last(EntryDirectives(source)) \in SymbolicEntries(source))
                => LET name == Upper(EntryOperand(source[Last(EntryDirectives(source))])[1])
                   IN  /\ name \in DefinedLabels(source)
                       /\ entry_point = EntryInt(labels[name].address)
    /\ (pc = "raised" /\ StartsWith(error[1].message, "Undefined")) =>
          /\ bytecode = None
          /\ \/ \E i \in LabelRefs :
                   Upper(instructions[i].operand_label[1]) \notin DefinedLabels(source)
             \/ /\ EntryDirectives(source) # {}
                /\ Last(EntryDirectives(source)) \in SymbolicEntries(source)
                /\ Upper(EntryOperand(source[Last(EntryDirectives(source))])[1])
                      \notin DefinedLabels(source)

\* a program has been assembled whose .ENTRY directive precedes the
\* definition of the label it names, spelled in another case, at a
\* non-zero address
C8_Witness ==
    /\ pc = "returned"
    /\ \E e \in SymbolicEntries(source) :
          /\ e = Last(EntryDirectives(source))
          /\ EntryOperand(source[e])[1] = "Loop"
          /\ labels["LOOP"].line_num > e
          /\ labels["LOOP"].name # EntryOperand(source[e])[1]
          /\ entry_point = EntryInt(labels["LOOP"].address)
          /\ entry_point.int > 0

(***************************************************************************)
(* Errors of pass 1 and pass 2                                             *)
(***************************************************************************)
\* one line for each parse failure, a label, and a branch that resolves,
\* fails to resolve, or is out of range depending on the lines around it
SyntaxLines ==
    {"FOO", "PUSH8", "ADD 1", "PUSH8 1x", ".ORG zz", ".FOO 1", ".DB 1,x",
     "loop: NOP", ".ORG 200", "JR loop"}

NextSyntax ==
    \/ pc = "idle" /\ \E src \in Sources(SyntaxLines) : AssembleBegin(src)
    \/ ParseLine
    \/ ResolveLabels
    \/ EmitBytecode

SpecSyntax == Init /\ [][NextSyntax]_vars

\* the errors the specification calls link errors, by their message
IsLinkError(e) ==
    \/ StartsWith(e.message, "Duplicate label '")
    \/ StartsWith(e.message, "Undefined label '")
    \/ StartsWith(e.message, "Undefined entry point label '")
    \/ StartsWith(e.message, "Relative jump to '")

\* the link errors that only pass 2 raises
IsPass2Error(e) == IsLinkError(e) /\ ~StartsWith(e.message, "Duplicate label '")


\* the line fails to parse on its own: no earlier label can be the cause
SyntaxErrorLine(line) == parse_line(line, 1, <<>>, 0, EntryInt(0)).raised # None

SyntaxErrorLines(src) == {i \in 1..Len(src) : SyntaxErrorLine(src[i])}

First(lines) == CHOOSE i \in lines : \A k \in lines : i <= k

\* C11: every error that assemble raises for a parse failure carries the
\* 1-based number of the offending source line and (a non-empty part of)
\* the text of that line.
C11_ParseErrorCarriesLineAndText ==
    (pc = "raised" /\ ~IsLinkError(error[1]))
    => /\ error[1].line_num = line_num
       /\ line_num \in 1..Len(source)
       /\ error[1].line # ""
       /\ Contains(source[line_num], error[1].line)

\* C12 as stated: whenever the source holds a line with a syntax error,
\* the error that assemble reports is not a link error.
C12_SyntaxBeforeLink ==
    (pc = "raised" /\ SyntaxErrorLines(source) # {}) => ~IsLinkError(error[1])

\* C12: when the source holds a line with a syntax error, assemble never
\* reports an undefined label, an undefined entry label or an out-of-range
\* relative jump; it reports the first syntax error, unless an earlier line
\* defines a label for the second time, and then it reports that duplicate.
C12_Pass2AfterPass1 ==
    (pc = "raised" /\ SyntaxErrorLines(source) # {})
    => /\ ~IsPass2Error(error[1])
       /\ IsLinkError(error[1]) => /\ error[1].line_num < First(SyntaxErrorLines(source))
                                   /\ SecondDefinition(source, error[1].line_num)
       /\ ~IsLinkError(error[1]) => error[1].line_num = First(SyntaxErrorLines(source))

\* a duplicate label was reported although a later line has a syntax error
C12_Witness ==
    /\ pc = "raised"
    /\ StartsWith(error[1].message, "Duplicate label '")
    /\ \E i \in SyntaxErrorLines(source) : i > error[1].line_num

(***************************************************************************)
(* Addresses and byte offsets                                              *)
(***************************************************************************)
\* instructions of each width, both directions of .ORG, data directives
\* with one and two values, labels on an instruction and on a directive
LayoutLines ==
    {"NOP", "PUSH8 1", "HALT", ".ORG 4", ".ORG 0", ".DB 1, 2", "x: .BYTE 7",
     "here: JMP here"}

NextLayout ==
    \/ pc = "idle" /\ \E src \in Sources(LayoutLines) : AssembleBegin(src)
    \/ ParseLine
    \/ ResolveLabels
    \/ EmitBytecode

SpecLayout == Init /\ [][NextLayout]_vars

\* the directive of a source line and its operand text, if it holds one
Directive(line) ==
    LET l == Strip(StripComment(line))
        m == LabelMatch(l)
        stmt == IF m = None THEN l ELSE Strip(SubSeq(l, m[1].end + 1, Len(l)))
        parts == Split1(stmt)
    IN  IF stmt # "" /\ StartsWith(parts[1], ".")
        THEN Some([name |-> Upper(parts[1]),
                   operand |-> IF Len(parts) > 1 THEN parts[2] ELSE ""])
        ELSE None

\* number of values of the .DB/.BYTE directive of a line, 0 without one
ByteValues(line) ==
    IF Directive(line) # None /\ Directive(line)[1].name \in {".DB", ".BYTE"}
    THEN Len(SplitComma(Directive(line)[1].operand))
    ELSE 0

\* number of .DB/.BYTE values on the lines before line ln
RECURSIVE ByteValuesBefore(_, _)
ByteValuesBefore(src, ln) ==
    IF ln <= 1 THEN 0 ELSE ByteValuesBefore(src, ln - 1) + ByteValues(src[ln - 1])

HasOrg(src) ==
    \E i \in 1..Len(src) : Directive(src[i]) # None /\ Directive(src[i])[1].name = ".ORG"

\* number of bytes emitted for the instructions of the lines before line ln
EmittedBefore(instrs, ln) ==
    ByteOffset(instrs, Cardinality({i \in 1..Len(instrs) : instrs[i].line_num < ln}) + 1)

\* C13: in the bytecode that assemble returns, an instruction with a lower
\* address stands at a lower byte offset than one with a higher address.
C13_EmittedInAddressOrder ==
    pc = "returned"
    => \A i, j \in 1..Len(instructions) :
           instructions[i].address < instructions[j].address
           => /\ ByteOffset(instructions, i) < ByteOffset(instructions, j)
              /\ bytecode[1][ByteOffset(instructions, i) + 1] = instructions[i].opcode

FileLines ==
    {".ENTRY 0x10000", ".ENTRY 4", "NOP", "main: HALT", ".ENTRY main", "FOO"}

\* byte sequences handed to create_zplc_file besides the assembled one
BytecodeSamples == {<<>>, <<1>>, <<0, 255>>}

NextFile ==
    \/ pc = "idle" /\ file_result = None
          /\ \E src \in Sources(FileLines) : AssembleBegin(src)
    \/ ParseLine
    \/ ResolveLabels
    \/ EmitBytecode
    \/ \E bytes \in BytecodeSamples \cup {bytecode[i] : i \in DOMAIN bytecode} :
           CreateZplcFile(bytes)

SpecFile == Init /\ [][NextFile]_vars

\* struct.unpack_from little-endian: the size-byte field at 0-based offset at
RECURSIVE Field(_, _, _)
Field(bytes, at, size) ==
    IF size = 0 THEN 0 ELSE bytes[at + 1] + 256 * Field(bytes, at + 1, size - 1)

\* the 32 bytes of the header of a module file
Header(file) == SubSeq(file, 1, 32)

\* the header a newly constructed assembler produces for the bytecode
FreshHeader(bytes) == Header(create_zplc_file(bytes, EntryInt(0)).file)

\* C15: every call of create_zplc_file on a bytecode of length n returns
\* 40 + n bytes: a header with code size n, data size 0 and segment count 1,
\* a segment entry with type 1, flags 0 and size n, then the bytecode.
C15_FileLayout ==
    file_result # None
    => /\ file_result[1].raised = None
       /\ Len(file_result[1].file) = 40 + Len(file_input)
       /\ Field(file_result[1].file, 16, 4) = Len(file_input)
       /\ Field(file_result[1].file, 20, 4) = 0
       /\ Field(file_result[1].file, 26, 2) = 1
       /\ Field(file_result[1].file, 32, 2) = 1
       /\ Field(file_result[1].file, 34, 2) = 0
       /\ Field(file_result[1].file, 36, 4) = Field(file_result[1].file, 16, 4)
       /\ SubSeq(file_result[1].file, 41, 40 + Len(file_input)) = file_input

\* C16 as stated: the header produced for a bytecode is the one a newly
\* constructed assembler produces for it, whatever the instance assembled
\* before, and its checksum field is 0.
C16_HeaderFromBytecodeAlone ==
    (file_result # None /\ file_result[1].raised = None)
    => /\ Header(file_result[1].file) = FreshHeader(file_input)
       /\ Field(file_result[1].file, 12, 4) = 0

\* C16: the header produced for a bytecode differs from the one a newly
\* constructed assembler produces for it in the entry-point field at most,
\* which holds the entry point the instance's last assemble left (0 while
\* it is a label name); the checksum field of every produced header is 0.
C16_HeaderUpToEntryPoint ==
    (file_result # None /\ file_result[1].raised = None)
    => /\ \A k \in (1..32) \ {25, 26} :
              file_result[1].file[k] = FreshHeader(file_input)[k]
       /\ Field(file_result[1].file, 24, 2)
              = (IF entry_point.is_str THEN 0 ELSE entry_point.int)
       /\ Field(file_result[1].file, 12, 4) = 0

\* a header was produced for a non-empty bytecode on an instance whose
\* last assemble resolved a symbolic entry point to a non-zero address
C16_Witness ==
    /\ file_result # None /\ file_result[1].raised = None
    /\ file_input # <<>>
    /\ pc = "returned" /\ entry_point.int > 0
    /\ "MAIN" \in DOMAIN labels /\ entry_point.int = labels["MAIN"].address
    /\ Header(file_result[1].file) # FreshHeader(file_input)

(***************************************************************************)
(* disassemble on arbitrary bytes                                          *)
(***************************************************************************)
\* longest byte sequence handed to disassemble
MaxBytes == 5

\* an opcode of each operand width (NOP, PUSH8, JMP, PUSH32) and a byte
\* value that is no opcode
DisBytes == {0, 64, 144, 192, 255}

ByteSeqs == UNION {[1..n -> DisBytes] : n \in 0..MaxBytes}

\* disassemble(bytes) has been called on some byte sequence and stands at
\* the first test of its while condition; the function needs no assembler
InitDis ==
    /\ AsmInit /\ IsaInit /\ FileInit /\ HilInit /\ SerInit
    /\ dis_input \in ByteSeqs
    /\ dis_pc = 0
    /\ dis_lines = <<>>
    /\ dis_reads = {}
    /\ dis_state = IF 0 < Len(dis_input) THEN "loop" ELSE "done"

NextDis == DisassembleStep

\* disassemble is one sequential loop: an iteration that can run does run
SpecDis == InitDis /\ [][NextDis]_vars /\ WF_vars(DisassembleStep)

EndsWith(s, t) == Len(s) >= Len(t) /\ SubSeq(s, Len(s) - Len(t) + 1, Len(s)) = t

\* C17: on any byte sequence disassemble reads no index at or beyond the
\* end of the input and raises nothing; an iteration on a byte that is no
\* opcode reports that byte as ??? and resumes at the next byte; an
\* iteration on an opcode whose operand extends past the end reports it as
\* truncated and ends the scan; every other iteration moves forward, and
\* the scan comes to an end.
C17_DisassembleInBounds ==
    /\ [](/\ dis_state # "raised"
          /\ dis_reads \subseteq 0..(Len(dis_input) - 1)
          /\ dis_state = "loop" => dis_pc < Len(dis_input))
    /\ [][dis_state = "loop"
          => /\ Len(dis_lines') = Len(dis_lines) + 1
             /\ dis_state' = "loop" => dis_pc' > dis_pc
             /\ dis_input[dis_pc + 1] \notin DOMAIN opcode_names
                => /\ dis_pc' = dis_pc + 1
                   /\ dis_reads' = dis_reads \cup {dis_pc}
                   /\ EndsWith(dis_lines'[Len(dis_lines')],
                               ": ??? (0x" \o Hex(dis_input[dis_pc + 1], 2) \o ")")
                   /\ dis_state' = "loop" <=> dis_pc + 1 < Len(dis_input)
             /\ (/\ dis_input[dis_pc + 1] \in DOMAIN opcode_names
                 /\ dis_pc + get_operand_size(dis_input[dis_pc + 1]) >= Len(dis_input))
                => /\ dis_state' = "done"
                   /\ dis_reads' = dis_reads \cup {dis_pc}
                   /\ EndsWith(dis_lines'[Len(dis_lines')], " <truncated>")]_vars
    /\ (dis_state = "loop") ~> (dis_state = "done")

\* a scan has ended that skipped an unknown byte, decoded a complete
\* 16-bit operand and reported a 32-bit operand cut short by the end
C17_Witness ==
    /\ dis_state = "done"
    /\ dis_input = <<255, 144, 0, 64, 192>>
    /\ dis_lines = <<"0x0000: ??? (0xFF)", "0x0001: JMP 0x4000", "0x0004: PUSH32 <truncated>">>
    /\ dis_reads = {0, 1, 2, 3, 4}

(***************************************************************************)
(* The upload of a bytecode by the four methods that upload                *)
(***************************************************************************)
\* longest bytecode uploaded, in bytes: more than the 16 bytes of one chunk
MaxUpload == 17

\* a bytecode of n bytes
Payload(n) == [k \in 1..n |-> (k * 37) % 256]

\* no chunk, one chunk, two chunks
Uploads == {Payload(n) : n \in {0, 1, MaxUpload}}

\* what compile_st can do: fail, or return one of the bytecodes
Compiled == {None} \cup {Some(b) : b \in Uploads}

\* what the device sends while start_and_capture listens
CaptureSamples == {<<>>, <<"{\"t\":\"ack\"}", "\r\n">>}

\* one call of one method on a connected tester; each send is answered with
\* the text it waits for, or not in time
NextHil ==
    \/ \E bytes \in Uploads : UploadBytecode(bytes)
    \/ \E bytes \in Uploads, reset \in BOOLEAN : RunBytecode(bytes, reset)
    \/ \E compiled \in Compiled, reset \in BOOLEAN : RunSt(compiled, reset)
    \/ \E compiled \in Compiled, reset \in BOOLEAN : CompileAndRun(compiled, reset)
    \/ \E seen \in BOOLEAN : ResetState(seen)
    \/ \E seen \in BOOLEAN : UploadStopReset(seen)
    \/ \E seen \in BOOLEAN : UploadLoad(seen)
    \/ \E seen \in BOOLEAN : UploadData(seen)
    \/ \E seen \in BOOLEAN : UploadEnd(seen)
    \/ \E seen \in BOOLEAN : StartAndCapture(seen)
    \/ \E arrivals \in CaptureSamples : Capture(arrivals)
    \/ \E seen \in BOOLEAN : StartAndWait(seen)

SpecHil == Init /\ [][NextHil]_vars

\* the sends of upload_bytecode that the retry loops repeat
LoadCmd(e) == StartsWith(e.cmd, "zplc load ")
DataCmd(e) == StartsWith(e.cmd, "zplc data ")

\* three successive sends from index k on
Attempts(k) == {j \in k..(k + 2) : k + 2 <= Len(hil_wire)}

\* the load command went unanswered in each of its 3 attempts
LoadExhausted ==
    \E k \in DOMAIN hil_wire :
        /\ Attempts(k) # {}
        /\ \A j \in Attempts(k) : LoadCmd(hil_wire[j]) /\ ~hil_wire[j].seen

\* one data chunk went unanswered in each of its 3 attempts
ChunkExhausted ==
    \E k \in DOMAIN hil_wire :
        /\ Attempts(k) # {}
        /\ \A j \in Attempts(k) :
              /\ DataCmd(hil_wire[j]) /\ ~hil_wire[j].seen
              /\ hil_wire[j].cmd = hil_wire[k].cmd

\* C18: once the load command, or a data chunk, has gone without the
\* success token in all 3 of its attempts, upload_bytecode has raised an
\* error to its caller
C18_ExhaustedUploadRaises ==
    (LoadExhausted \/ ChunkExhausted) => (hil_pc = "raised" /\ hil_error # None)

\* C19: a data command is written only after a load command of the same
\* upload that was answered with the success token; at most 3 load commands
\* are written, and after 3 unanswered ones no data command follows
C19_DataOnlyAfterLoadAck ==
    /\ Cardinality({j \in DOMAIN hil_wire : LoadCmd(hil_wire[j])}) <= 3
    /\ \A k \in DOMAIN hil_wire :
          DataCmd(hil_wire[k]) =>
              \E j \in 1..(k - 1) : LoadCmd(hil_wire[j]) /\ hil_wire[j].seen
    /\ LoadExhausted => \A k \in DOMAIN hil_wire : ~DataCmd(hil_wire[k])

\* a chunk has been sent after the load command was answered at its third
\* attempt only
C19_Witness ==
    \E k \in DOMAIN hil_wire :
        /\ k > 3
        /\ DataCmd(hil_wire[k])
        /\ LoadCmd(hil_wire[k - 1]) /\ hil_wire[k - 1].seen
        /\ LoadCmd(hil_wire[k - 2]) /\ ~hil_wire[k - 2].seen
        /\ LoadCmd(hil_wire[k - 3]) /\ ~hil_wire[k - 3].seen

\* C20: run_bytecode, run_st and compile_and_run write no start command
\* once their upload has exhausted the retries of load or of a chunk
C20_NoStartAfterFailedUpload ==
    (/\ hil_call.method \in {"run_bytecode", "run_st", "compile_and_run"}
     /\ (LoadExhausted \/ ChunkExhausted))
        => \A k \in DOMAIN hil_wire : hil_wire[k].cmd # "zplc start"

\* the number of chunks of a hex text
NChunks(hex_data) == (Len(hex_data) + chunk_size - 1) \div chunk_size

\* the positions of the wire log that hold a data command
DataSends == {k \in DOMAIN hil_wire : DataCmd(hil_wire[k])}

\* the chunks (numbered from 0) of hex_data whose text the data command at
\* position k carries
ChunksAt(hex_data, k) ==
    {m \in 0..(NChunks(hex_data) - 1) :
        hil_wire[k].cmd = "zplc data " \o chunk(hex_data, m * chunk_size)}

\* the data commands carry the chunks of hex_data in order, each re-sent
\* only after it went unanswered, at most 3 times
ChunksInOrder(hex_data) ==
    \A k \in DataSends :
        /\ ChunksAt(hex_data, k) # {}
        /\ Len(hil_wire[k].cmd) - Len("zplc data ") \in {2 * n : n \in 1..16}
        /\ \A j \in DOMAIN hil_wire : j > k => ~LoadCmd(hil_wire[j])
        /\ Cardinality({j \in DataSends : hil_wire[j].cmd = hil_wire[k].cmd}) <= 3
        /\ (k - 1) \notin DataSends =>
               /\ 0 \in ChunksAt(hex_data, k)
               /\ k > 1 /\ LoadCmd(hil_wire[k - 1]) /\ hil_wire[k - 1].seen
        /\ (k - 1) \in DataSends =>
               \E m \in ChunksAt(hex_data, k - 1) :
                   IF hil_wire[k - 1].seen THEN (m + 1) \in ChunksAt(hex_data, k)
                   ELSE m \in ChunksAt(hex_data, k)

\* C21: every data command carries one chunk of the hex text, of at most 32
\* characters and of even length; the first carries chunk 0 and follows an
\* answered load; the data command after an answered one carries the next
\* chunk and the one after an unanswered one the same chunk; no chunk is
\* sent more than 3 times; no load command follows a data command; and when
\* a chunk has gone unanswered 3 times, its third attempt is the last data
\* command
C21_ChunksInOrderWithOwnRetries ==
    /\ ChunksInOrder(hexlify(hil_call.bytecode))
    /\ \A k \in DOMAIN hil_wire :
          (/\ Attempts(k) # {}
           /\ \A j \in Attempts(k) :
                 /\ DataCmd(hil_wire[j]) /\ ~hil_wire[j].seen
                 /\ hil_wire[j].cmd = hil_wire[k].cmd)
              => \A j \in DataSends : j <= k + 2

\* both chunks of the longest bytecode were sent, the first one twice
C21_Witness ==
    /\ Len(hil_call.bytecode) > 16
    /\ \E k \in DataSends :
          /\ (k + 2) \in DataSends /\ (k - 1) \notin DataSends
          /\ ~hil_wire[k].seen /\ hil_wire[k + 1].seen /\ hil_wire[k + 2].seen
          /\ hil_wire[k + 1].cmd = hil_wire[k].cmd
          /\ hil_wire[k + 2].cmd # hil_wire[k].cmd

(***************************************************************************)
(* A test script: several calls, one after the other, on one tester        *)
(***************************************************************************)
\* the script makes no further call once this many commands are written
MaxSession == 8

\* calls that reset, upload, start and stop, in any order; the answers the
\* code discards all arrive
NextSession ==
    \/ UploadBytecode(Payload(1))
    \/ \E reset \in BOOLEAN : RunBytecode(Payload(1), reset)
    \/ \E seen \in BOOLEAN : StartRunning(seen)
    \/ StopRunning(TRUE)
    \/ ResetState(TRUE)
    \/ UploadStopReset(TRUE)
    \/ \E seen \in BOOLEAN : UploadLoad(seen)
    \/ \E seen \in BOOLEAN : UploadData(seen)
    \/ UploadEnd(TRUE)
    \/ StartAndCapture(TRUE)
    \/ \E arrivals \in CaptureSamples : Capture(arrivals)
    \/ Len(hil_wire) < MaxSession /\ NextCall

SpecSession == Init /\ [][NextSession]_vars

\* the command at position k of the wire log, "" outside the log
CmdAt(k) == IF k \in DOMAIN hil_wire THEN hil_wire[k].cmd ELSE ""

\* the last position before k that holds no load command
BeforeLoads(k) ==
    CHOOSE j \in 0..(k - 1) :
        /\ j \in DOMAIN hil_wire => ~LoadCmd(hil_wire[j])
        /\ \A i \in (j + 1)..(k - 1) : LoadCmd(hil_wire[i])

\* C23: persist clear is only ever written as the third command of stop,
\* reset, persist clear, and the settle delay follows it before the next
\* command; when reset_state has returned these three are the last commands
\* written; and the commands before the load attempts of an upload are
\* stop and then reset, so that no start lies between them and the load
C23_ResetAndUploadOrder ==
    /\ \A k \in DOMAIN hil_wire :
          CmdAt(k) = "zplc persist clear" =>
              /\ CmdAt(k - 1) = "zplc reset" /\ CmdAt(k - 2) = "zplc stop"
              /\ [at |-> k, op |-> "sleep 0.5"] \in {hil_steps[n] : n \in DOMAIN hil_steps}
              /\ k < Len(hil_wire) => CmdAt(k + 1) = "zplc stop"
    /\ (hil_call.reset /\ hil_pc = "upload_bytecode.stop") =>
          CmdAt(Len(hil_wire)) = "zplc persist clear"
    /\ \A k \in DOMAIN hil_wire :
          LoadCmd(hil_wire[k]) =>
              /\ CmdAt(BeforeLoads(k)) = "zplc reset"
              /\ CmdAt(BeforeLoads(k) - 1) = "zplc stop"

\* a run that reset the device first uploads after an earlier call started
\* the program
C23_Witness ==
    \E k \in DOMAIN hil_wire :
        /\ CmdAt(k) = "zplc start"
        /\ CmdAt(k + 1) = "zplc stop" /\ CmdAt(k + 2) = "zplc reset"
        /\ CmdAt(k + 3) = "zplc persist clear"
        /\ CmdAt(k + 4) = "zplc stop" /\ CmdAt(k + 5) = "zplc reset"
        /\ LoadCmd(hil_wire[Len(hil_wire)]) /\ Len(hil_wire) = k + 6

(***************************************************************************)
(* peek on the responses a device can give                                 *)
(***************************************************************************)
\* longest response, in lines before the prompt
MaxRespLines == 2

\* lines of a response: the echo of the command, dump lines with 4, 2 and 1
\* byte, lines with a second colon, text that is no dump
PeekLines ==
    {"zplc dbg peek 0x1000 4", "00001000: 01 02 0a FF", "1000: 7f 80",
     "1000: de:ad", "a:b: 0c", "10: 0g 123 x", "> 05 06"}

\* the lines joined by "\r\n", each line ended
RECURSIVE JoinLines(_)
JoinLines(lines) ==
    IF lines = <<>> THEN "" ELSE Head(lines) \o "\r\n" \o JoinLines(Tail(lines))

\* what send can return to peek: some lines, then the prompt or (after the
\* timeout) none
PeekResponses ==
    {JoinLines(lines) \o tail :
        lines \in UNION {[1..n -> PeekLines] : n \in 0..MaxRespLines},
        tail \in {"", Prompt}}

NextPeek ==
    \E length \in {0, 1, 2, 4}, resp \in PeekResponses : Peek(4096, length, resp)

SpecPeek == Init /\ [][NextPeek]_vars

\* peek has returned
Peeked == hil_call.method = "peek" /\ hil_pc = "returned"

\* smaller of two numbers
Least(a, b) == IF a < b THEN a ELSE b

\* C24: peek(addr, n) returns the first min(n, k) of the k bytes parsed
\* from the response, in order, and raises nothing
C24_PeekShortRead ==
    Peeked =>
        \E parsed \in {bytes_out(splitlines(hil_resp, 1, ""), 1)} :
            /\ hil_error = None
            /\ hil_result # None
            /\ Len(hil_result[1]) = Least(hil_call.length, Len(parsed))
            /\ \A k \in 1..Len(hil_result[1]) : hil_result[1][k] = parsed[k]

\* 4 bytes were asked for and the response held 2
C24_Witness ==
    /\ Peeked
    /\ hil_call.length = 4
    /\ hil_resp = "zplc dbg peek 0x1000 4\r\n1000: 7f 80\r\n" \o Prompt
    /\ hil_result = Some(<<127, 128>>)

\* the text of a line after its first colon
AfterColon(line) == SubSeq(line, find(line, ":") + 2, Len(line))

\* the two-hex-digit tokens after a colon, line by line, as bytes
RECURSIVE ColonTokens(_, _)
ColonTokens(lines, n) ==
    IF n > Len(lines) THEN <<>>
    ELSE IF find(lines[n], ":") = -1 THEN ColonTokens(lines, n + 1)
    ELSE [k \in 1..Len(hex_matches(AfterColon(lines[n]), 1)) |->
             PyInt(hex_matches(AfterColon(lines[n]), 1)[k], 16).val]
         \o ColonTokens(lines, n + 1)

\* C25: the bytes peek returns are the first of the two-hex-digit tokens
\* that follow a colon on the lines of the response, tokens after a second
\* colon included
C25_EveryTokenAfterColon ==
    Peeked =>
        hil_result = Some(slice_to(ColonTokens(splitlines(hil_resp, 1, ""), 1),
                                   hil_call.length))

(***************************************************************************)
(* poke on values of every width                                           *)
(***************************************************************************)
\* 16-bit halves of the values poked: 0, 0xFF, 0x100, 0x1234, 0x5678, 0xFFFF
PokeHalves == {0, 255, 256, 4660, 22136, 65535}

\* the values poked, value = 65536 * hi + lo
PokeValues == [hi : PokeHalves, lo : PokeHalves]

NextPoke ==
    \E address \in {0, 4096, 8196}, value \in PokeValues, size \in {1, 2, 3, 4},
       seen \in BOOLEAN :
        Poke(address, value, size, seen)

SpecPoke == Init /\ [][NextPoke]_vars

\* poke was called with a width of 1, 2 or 4 bytes and a value that fits it
PokedInRange ==
    /\ hil_call.method = "poke"
    /\ \/ hil_call.size = 1 /\ hil_call.value.hi = 0 /\ hil_call.value.lo < 256
       \/ hil_call.size = 2 /\ hil_call.value.hi = 0
       \/ hil_call.size = 4

\* the byte that the hex digits 2j+1 and 2j+2 of a payload give, 0 past its end
PayloadByte(payload, j) ==
    IF 2 * j + 2 <= Len(payload)
    THEN PyInt(SubSeq(payload, 2 * j + 1, 2 * j + 2), 16).val ELSE 0

\* the command carries 2 * size hex digits that give value, least
\* significant byte first, after the address
PokeCommand(cmd, address, value, size) ==
    \E payload \in {SubSeq(cmd, Len(cmd) - 2 * size + 1, Len(cmd))} :
        /\ cmd = "zplc dbg poke " \o hex(address) \o " " \o payload
        /\ Len(payload) = 2 * size
        /\ \A k \in 1..Len(payload) : Char(payload, k) \in HexChars
        /\ PayloadByte(payload, 0) + 256 * PayloadByte(payload, 1) = value.lo
        /\ PayloadByte(payload, 2) + 256 * PayloadByte(payload, 3) = value.hi

\* C26: poke with a width of 1, 2 or 4 and a value that fits the width
\* writes one command, dbg poke with the address and 2 * width hex digits
\* that give the value in little-endian byte order, and returns
C26_PokeOneLittleEndianCommand ==
    PokedInRange =>
        /\ hil_pc = "returned" /\ hil_error = None
        /\ Len(hil_wire) = 1
        /\ PokeCommand(hil_wire[1].cmd, hil_call.address, hil_call.value, hil_call.size)

\* 0x12345678 was poked as 4 bytes
C26_Witness ==
    /\ PokedInRange
    /\ hil_call.size = 4 /\ hil_call.value = [hi |-> 4660, lo |-> 22136]
    /\ hil_wire[1].cmd = "zplc dbg poke 0x1000 78563412"

\* C27: a poke whose command the device did not answer has been sent 3
\* times and has raised an error to its caller
C27_PokeRetriedThenRaises ==
    (/\ PokedInRange
     /\ \A k \in DOMAIN hil_wire : ~hil_wire[k].seen)
        => (Len(hil_wire) = 3 /\ hil_pc = "raised" /\ hil_error # None)

\* the statement op was executed when k commands had been written
StepAt(k, op) == [at |-> k, op |-> op] \in {hil_steps[n] : n \in DOMAIN hil_steps}

\* C28: in compile_and_run, whose run is start_and_wait, the command that
\* turns trace mode off is followed by start and start by stop, start is
\* only written after mode off, the pause of the given duration lies
\* between start and stop, and when the method has returned after writing
\* start, stop is the last command written
C28_StartAndWaitOrder ==
    hil_call.method = "compile_and_run" =>
        /\ \A k \in DOMAIN hil_wire :
              /\ (CmdAt(k) = "zplc hil mode off" /\ k < Len(hil_wire)) =>
                     CmdAt(k + 1) = "zplc start"
              /\ CmdAt(k) = "zplc start" =>
                     /\ CmdAt(k - 1) = "zplc hil mode off"
                     /\ StepAt(k, "sleep duration")
                     /\ k < Len(hil_wire) => CmdAt(k + 1) = "zplc stop"
        /\ (hil_pc = "returned" /\ \E k \in DOMAIN hil_wire : CmdAt(k) = "zplc start") =>
              /\ CmdAt(Len(hil_wire)) = "zplc stop"
              /\ CmdAt(Len(hil_wire) - 1) = "zplc start"

\* compile_and_run has returned after an upload the device acknowledged
C28_Witness ==
    /\ hil_call.method = "compile_and_run" /\ hil_pc = "returned"
    /\ ~LoadExhausted /\ ~ChunkExhausted
    /\ Len(hil_wire) > 3
    /\ CmdAt(Len(hil_wire) - 2) = "zplc hil mode off"
    /\ CmdAt(Len(hil_wire) - 1) = "zplc start"
    /\ CmdAt(Len(hil_wire)) = "zplc stop"

\* C29: when start_running or stop_running has returned, the last two
\* commands written are the one that turns trace mode off and then start
\* (or stop), the input buffer was reset between the two, and a pause
\* followed the second
C29_StartStopDisableTraceFirst ==
    (hil_call.method \in {"start_running", "stop_running"} /\ hil_pc = "returned") =>
        /\ CmdAt(Len(hil_wire) - 1) = "zplc hil mode off"
        /\ StepAt(Len(hil_wire) - 1, "reset_input_buffer")
        /\ CmdAt(Len(hil_wire)) =
               (IF hil_call.method = "start_running" THEN "zplc start" ELSE "zplc stop")
        /\ \E n \in DOMAIN hil_steps :
              hil_steps[n].at = Len(hil_wire) /\ StartsWith(hil_steps[n].op, "sleep")

(***************************************************************************)
(* start_and_capture on what a device can send while it runs               *)
(***************************************************************************)
\* longest text sent during the capture, in pieces
MaxPieces == 3

\* the pieces of that text: the records of JsonObjects (the empty one is
\* made of the two braces), the body of a record without its braces,
\* single braces and a line end
CapturePieces ==
    (DOMAIN JsonObjects \ {"{}"}) \cup {"\"t\":\"ack\"", "{", "}", "\r\n"}

\* every text of at most MaxPieces pieces
CaptureStreams == UNION {[1..n -> CapturePieces] : n \in 0..MaxPieces}

\* run_bytecode of an empty program on a device that answers every send,
\* then the capture
NextCapture ==
    \/ RunBytecode(<<>>, FALSE)
    \/ UploadStopReset(TRUE)
    \/ UploadLoad(TRUE)
    \/ UploadEnd(TRUE)
    \/ StartAndCapture(TRUE)
    \/ \E arrivals \in CaptureStreams : Capture(arrivals)

SpecCapture == Init /\ [][NextCapture]_vars

\* run_bytecode has returned what start_and_capture returned
Captured == hil_call.method = "run_bytecode" /\ hil_pc = "returned" /\ hil_result # None

\* the JSON text of an object the device sends
TextOf(object) == CHOOSE t \in DOMAIN JsonObjects : JsonObjects[t] = object

\* the texts occur in s from index i on, one after the other in this order
RECURSIVE OccurInOrder(_, _, _)
OccurInOrder(texts, s, i) ==
    IF texts = <<>> THEN TRUE
    ELSE \E n \in i..(Len(s) - Len(Head(texts)) + 1) :
             /\ SubSeq(s, n, n + Len(Head(texts)) - 1) = Head(texts)
             /\ \A m \in i..(n - 1) : SubSeq(s, m, m + Len(Head(texts)) - 1) # Head(texts)
             /\ OccurInOrder(Tail(texts), s, n + Len(Head(texts)))

\* C30: every record start_and_capture returns is an object that the
\* device sent, with "t" one of opcode, error, task, fb, ack; the records
\* are in the order in which their texts arrived; and whatever else arrived,
\* the method returns and raises nothing
C30_CapturedRecordsAreKnownKinds ==
    (hil_call.method = "run_bytecode" /\ hil_pc \in {"returned", "raised"}) =>
        /\ hil_error = None /\ hil_result # None
        /\ \A k \in DOMAIN hil_result[1] :
              /\ hil_result[1][k] \in {JsonObjects[t] : t \in DOMAIN JsonObjects}
              /\ "t" \in DOMAIN hil_result[1][k]
              /\ hil_result[1][k]["t"] \in {"opcode", "error", "task", "fb", "ack"}
        /\ OccurInOrder([k \in DOMAIN hil_result[1] |-> TextOf(hil_result[1][k])],
                        Unspaced(hil_resp), 1)

\* a record of another kind arrived between two records that are returned
C30_Witness ==
    /\ Captured
    /\ hil_resp = "{\"t\":\"opcode\",\"pc\":1}{\"t\":\"log\"}{\"t\":\"ack\"}"
    /\ hil_result = Some(<<[t |-> "opcode", pc |-> 1], [t |-> "ack"]>>)

(***************************************************************************)
(* The retry loops of upload_bytecode against a device that answers late,  *)
(* in parts, or not at all                                                 *)
(***************************************************************************)
\* number of texts the device sends
MaxArrivals == 3

\* the texts the device sends: the success token, whole or in two parts,
\* and an error
DeviceTexts == {"OK:", "O", "K:", "ERR"}

NextSerial ==
    \/ \E loop \in {"load", "data"} : LoopBegin(loop)
    \/ Drain
    \/ Write
    \/ Read
    \/ Timeout
    \/ AttemptEnd
    \/ ser_arrived < MaxArrivals /\ \E text \in DeviceTexts : Arrive(text)

SpecSerial == Init /\ [][NextSerial]_vars

\* send() has written the command of the attempt and reads, or has read,
\* its response
Answering == ser_pc \in {"send.read", "send.returned", "acknowledged", "failed"}

\* C22 as stated: every attempt writes its command after two drains of
\* the input buffer, and every byte of the attempt's response was received
\* after the command of that attempt was written
C22_NoByteBeforeWriteCounts ==
    /\ ser_writes > 0 => ser_drains >= 2 * ser_writes
    /\ Answering => \A k \in DOMAIN ser_response : ser_response[k].w = ser_writes

\* C22: every attempt writes its command after two drains of the input
\* buffer, the second one inside send(); what is in the buffer when the
\* command is written, and every byte of the attempt's response, was
\* received after that drain had found the buffer empty
C22_NoByteBeforeDrainCounts ==
    /\ ser_writes > 0 => ser_drains >= 2 * ser_writes
    /\ ser_pc = "send.write" => \A k \in DOMAIN ser_in : ser_in[k].d = ser_drains
    /\ Answering => \A k \in DOMAIN ser_response : ser_response[k].d = ser_drains

\* a success token that arrived between the drain and the write of the
\* second attempt was counted by that attempt
C22_Witness ==
    /\ ser_pc = "acknowledged" /\ ser_attempt = 1
    /\ TextOfBytes(ser_response) = "OK:"
    /\ \A k \in DOMAIN ser_response :
          ser_response[k].d = ser_drains /\ ser_response[k].w = ser_writes - 1

(***************************************************************************)
(* Records with a nested object, and what arrives before a record          *)
(***************************************************************************)
\* the texts of the records of a known kind
KnownTexts == {t \in DOMAIN JsonObjects :
                  "t" \in DOMAIN JsonObjects[t] /\ JsonObjects[t]["t"] \in TraceKinds}

\* the texts among them that hold a nested object
NestedTexts == {t \in KnownTexts : \E i \in 2..Len(t) : Char(t, i) = "{"}

\* the records that start_and_capture returned
Returned == {hil_result[1][k] : k \in DOMAIN hil_result[1]}

\* C31: a record of a known kind that arrives alone is returned as one
\* record, from its opening brace to the matching closing brace, also when
\* it holds a nested brace-delimited object
C31_NestedRecordReturnedWhole ==
    \A t \in KnownTexts :
        (Captured /\ hil_resp = t) => hil_result = Some(<<JsonObjects[t]>>)

\* a record with a nested object arrived alone and nothing was returned
C31_NestedRecordLost ==
    \E t \in NestedTexts : Captured /\ hil_resp = t /\ hil_result = Some(<<>>)

\* the texts of the flat records of a known kind
FlatTexts == KnownTexts \ NestedTexts

\* C34: every complete flat record of a known kind that arrives during the
\* capture is among the records returned, whatever arrived before it
C34_FlatRecordReturnedAfterAnyBytes ==
    Captured =>
        \A t \in FlatTexts : Contains(hil_resp, t) => JsonObjects[t] \in Returned

\* a closing brace arrived before a flat record and nothing was returned
C34_StrayBraceBlocksCapture ==
    Captured /\ hil_resp = "}{\"t\":\"ack\"}" /\ hil_result = Some(<<>>)

(***************************************************************************)
(* The bytes of every instruction                                          *)
(***************************************************************************)
\* instructions of every operand width, with operands inside their width,
\* above it and below zero, and a data directive
EmitLines ==
    {"HALT", "RET", "PUSH8 7", "PUSH8 300", "PUSH8 -1", "PUSH16 0x12345",
     "PUSH32 0x12345678", "PUSH32 -2", ".DB 1, 2"}

NextEmit ==
    \/ pc = "idle" /\ \E src \in Sources(EmitLines) : AssembleBegin(src)
    \/ ParseLine
    \/ ResolveLabels
    \/ EmitBytecode

SpecEmit == Init /\ [][NextEmit]_vars

\* the j-th byte, from the least significant, of the operand v reduced
\* modulo 2^(8*width); at width 4 the reduction leaves these bytes of a
\* 32-bit value as they are
OperandByte(v, width, j) ==
    IF width < 4 THEN ((v % (256 ^ width)) \div (256 ^ (j - 1))) % 256
    ELSE (v \div (256 ^ (j - 1))) % 256

\* the bytes of the i-th instruction in the output are its opcode and its
\* operand, least significant byte first
InstrBytesAt(out, i) ==
    LET off == ByteOffset(instructions, i)
        width == DocumentedWidth(instructions[i].opcode)
        v == IF instructions[i].operand # None THEN instructions[i].operand[1] ELSE 0
    IN  /\ off + 1 + width <= Len(out)
        /\ out[off + 1] = instructions[i].opcode
        /\ \A j \in 1..width : out[off + 1 + j] = OperandByte(v, width, j)

\* C32: every instruction of a successfully assembled program contributes
\* its opcode byte followed by its operand modulo 2^(8*width) in
\* little-endian order, nothing after the opcode when the width is 0, and
\* the output is as long as the sum of these sizes
C32_OpcodeThenOperandLittleEndian ==
    (pc = "returned" /\ bytecode # None) =>
        /\ Len(bytecode[1]) = ByteOffset(instructions, Len(instructions) + 1)
        /\ \A i \in 1..Len(instructions) : InstrBytesAt(bytecode[1], i)

\* operands above their width and below zero have been emitted, at the
\* widths 1, 4 and 0
C32_Witness ==
    /\ pc = "returned"
    /\ source = <<"PUSH8 300", "PUSH32 -2", "HALT", "PUSH16 0x12345">>
    /\ bytecode = Some(<<64, 44, 192, 254, 255, 255, 255, 1, 136, 69, 35>>)

(***************************************************************************)
(* Addresses of a program of instructions and labels only                  *)
(***************************************************************************)
\* the source holds no .ORG, .DB or .BYTE directive
NoLayoutDirective(src) ==
    \A i \in 1..Len(src) :
        Directive(src[i]) = None
        \/ Directive(src[i])[1].name \notin {".ORG", ".DB", ".BYTE"}

\* C35: for a source without .ORG, .DB and .BYTE the address of every
\* instruction and of every label is its byte offset in the bytecode
\* returned, each instruction lies 1 + operand width above the one before
\* it, and the address cursor ends at the length of the output
C35_AddressIsByteOffset ==
    (pc = "returned" /\ NoLayoutDirective(source)) =>
        /\ \A i \in 1..Len(instructions) :
              instructions[i].address = ByteOffset(instructions, i)
        /\ \A i \in 1..(Len(instructions) - 1) :
              instructions[i + 1].address
                  = instructions[i].address + 1 + DocumentedWidth(instructions[i].opcode)
        /\ \A n \in DOMAIN labels :
              labels[n].address = EmittedBefore(instructions, labels[n].line_num)
        /\ current_address = Len(bytecode[1])

\* instructions of the widths 1, 2 and 0 with a label behind the first
C35_Witness ==
    /\ pc = "returned"
    /\ source = <<"PUSH8 1", "here: JMP here", "NOP", "HALT">>
    /\ labels["HERE"].address = 2
    /\ current_address = 7
    /\ Len(bytecode[1]) = 7

(***************************************************************************)
(* One assembler instance that assembles one source after another          *)
(***************************************************************************)
\* number of calls of assemble on the instance
MaxCalls == 2

\* a label defined and used, an entry point by label, a line that fails
\* and an instruction that moves the address cursor
ReuseLines == {"main: JMP main", ".ENTRY main", "FOO", "PUSH8 1"}

NextReuse ==
    \/ Len(asm_log) + (IF pc = "idle" THEN 0 ELSE 1) < MaxCalls
          /\ \E src \in Sources(ReuseLines) : AssembleBegin(src)
    \/ ParseLine
    \/ ResolveLabels
    \/ EmitBytecode

SpecReuse == Init /\ [][NextReuse]_vars

\* the call has ended as it ends on a fresh instance, and has left the
\* entry point and the label table that it leaves there
AsOnFreshInstance(fresh) ==
    /\ (pc = "raised") = (fresh.raised # None)
    /\ error = fresh.raised
    /\ pc = "returned" => bytecode = Some(fresh.bytes)
    /\ entry_point = fresh.entry_point
    /\ labels = fresh.labels

\* C36: assemble(S) on an instance that has assembled other sources
\* before, with or without an error, ends as it ends on a fresh instance:
\* the same bytes or the same error, the same entry point and label table
C36_AssembleDependsOnSourceOnly ==
    pc \in {"returned", "raised"} => AsOnFreshInstance(assemble(source))

\* the second call on the instance has returned, after a first call that
\* failed with the label MAIN entered
C36_Witness ==
    /\ asm_log = <<"raised">>
    /\ pc = "returned"
    /\ source = <<"PUSH8 1", "main: JMP main", ".ENTRY main">>
    /\ bytecode = Some(<<64, 1, 144, 2, 0>>)
    /\ entry_point = EntryInt(2)
    /\ DOMAIN labels = {"MAIN"}

(***************************************************************************)
(* The opcode table of the client against the table of the assembler       *)
(***************************************************************************)
\* C37: ZPLCTester.OP and Opcode hold the same mnemonics with the same
\* byte values, and the disassembler names every byte value of the client
\* table with the client's mnemonic
C37_ClientTableIsIsaTable ==
    /\ DOMAIN OP = DOMAIN Opcode
    /\ \A m \in DOMAIN OP \cap DOMAIN Opcode : OP[m] = Opcode[m]
    /\ isa_result # None =>
          \A m \in DOMAIN OP : OP[m] = isa_opcode => isa_result[1].name = Some(m)

\* the lookup of the byte value of LOADI8 of the client table has found
\* no name and no width entry
C37_ClientOpcodeUnnamed ==
    /\ isa_result # None
    /\ isa_opcode = OP["LOADI8"]
    /\ isa_result[1].name = None
    /\ isa_result[1].table = None

(***************************************************************************)
(* upload_bytecode against a device that handles every command it gets     *)
(***************************************************************************)
NextDevice ==
    \/ \E bytes \in Uploads : UploadLoops(bytes)
    \/ Drain
    \/ Write
    \/ Read
    \/ Timeout
    \/ AttemptEnd
    \/ SendDone
    \/ LoopNext
    \/ \E answered \in BOOLEAN : DeviceHandle(answered)

SpecDevice == Init /\ [][NextDevice]_vars

\* every chunk has been acknowledged and the device has handled all that
\* was written
AllAcknowledged == ser_pc = "uploaded" /\ dev_rx = <<>>

\* C33: when every chunk of upload_bytecode has been acknowledged, the
\* device has accepted each chunk once and in order: it holds the hex
\* digits of the bytecode, also after lost and late answers
C33_DeviceHoldsBytecode == AllAcknowledged => dev_data = ser_hex

\* every chunk of a one-chunk bytecode was acknowledged and the device
\* holds the chunk twice
C33_ChunkAcceptedTwice ==
    /\ AllAcknowledged
    /\ Len(ser_hex) = 2
    /\ dev_data = ser_hex \o ser_hex

(***************************************************************************)
(* C38: the end of every send and of upload_bytecode                        *)
(***************************************************************************)

\* the steps of the tester: the interpreter keeps running upload_bytecode,
\* whatever the device does
TesterStep ==
    \/ Drain
    \/ Write
    \/ Read
    \/ Timeout
    \/ AttemptEnd
    \/ SendDone
    \/ LoopNext

SpecUpload == Init /\ [][NextDevice]_vars /\ WF_vars(TesterStep)

\* 2 + 3 + 3 * ceil(n / 16) + 1 for the n bytes of hex_data
MostCommands(hex_data) ==
    2 + 3 + 3 * (((Len(hex_data) \div 2) + 15) \div 16) + 1

\* upload_bytecode has returned
UploadOver == ser_pc \in {"uploaded", "failed"}

\* C38: a send that is still reading has not read the awaited token and
\* every send comes to its end, by the token or by the timeout;
\* upload_bytecode always returns, and for bytecode of n bytes it has
\* written at most 2 + 3 + 3 * ceil(n / 16) + 1 commands, whether the
\* device answers or not
C38_UploadEndsWithinBoundedCommands ==
    /\ [](ser_pc = "send.read"
            => ~Contains(TextOfBytes(ser_response), ser_wait_for))
    /\ [](ser_writes <= MostCommands(ser_hex))
    /\ (ser_pc = "send.read") ~> (ser_pc = "send.returned")
    /\ (ser_pc # "idle") ~> UploadOver

\* upload_bytecode has returned after the most commands a bytecode of two
\* chunks allows, and the device has answered none of them in time but the
\* last load and the last attempt of each chunk
C38_Witness ==
    /\ ser_pc = "uploaded"
    /\ NChunks(ser_hex) = 2
    /\ ser_writes = MostCommands(ser_hex)
    /\ dev_rx = <<>>

====
